---- MODULE Spec2Model ----
(***************************************************************************)
(* A model of LibUTF's toolkit layer (src/src/utf_toolkit.cpp,             *)
(* src/include/utf_toolkit.h, src/src/unicode_utilities.cpp).              *)
(*                                                                         *)
(* Representation.                                                         *)
(*  - A byte is a number in 0..255.  Memory is a sequence of bytes; the    *)
(*    byte at C index i is mem[i + 1].  The caller's buffer is the first   *)
(*    text.length bytes of mem; the bytes after it are whatever the        *)
(*    process holds behind the buffer.                                     *)
(*  - unicode_t is int32_t and is held as its value.  uint32_t values      *)
(*    (offset, length, limit, count, points) are held as the int32 with    *)
(*    the same bit pattern, so 0xFFFFFFFF is -1 and a subtraction that     *)
(*    wraps below zero yields the negative number with the wrapped bit     *)
(*    pattern.  Comparisons the code makes on unsigned operands are made   *)
(*    with ULt/ULe/UGt/UGe.                                                *)
(*  - cp_errors is the set of the names of the bits that are set.          *)
(***************************************************************************)
EXTENDS Integers, Sequences, FiniteSets, TLC

VARIABLES mem, text, cfg, pc, last

vars == <<mem, text, cfg, pc, last>>

\* ------------------------------------------------------------------------
\* 32-bit helpers
\* ------------------------------------------------------------------------

\* a < b on uint32 operands held as int32 bit patterns
ULt(a, b) == IF (a < 0) = (b < 0) THEN a < b ELSE b < 0

ULe(a, b) == (a = b) \/ ULt(a, b)

UGt(a, b) == ULt(b, a)

UGe(a, b) == ULe(b, a)

\* static_cast<uint8_t>(unicode >> k) for the signed unicode_t (arithmetic shift)
ShrByte(unicode, k) == (unicode \div (2 ^ k)) % 256

\* the byte at C index i of memory m (0 outside the modelled memory; an
\* operation that reads there is a fault, see Faulted)
At(m, i) == IF i >= 0 /\ i < Len(m) THEN m[i + 1] ELSE 0

\* (byte & 0xc0u) == 0x80u
IsCont(byte) == (byte \div 64) = 2

\* ((byte & 0xc0u) != 0x80u) && (byte <= 0xfdu)
IsLead(byte) == ~IsCont(byte) /\ byte <= \hFD

\* ((byte & 0xc0u) != 0x80u) && (byte <= 0xf7u)
IsLeadSt(byte) == ~IsCont(byte) /\ byte <= \hF7

RECURSIVE BitOr(_, _)
\* a | b on non-negative operands
BitOr(a, b) ==
    IF a = 0 THEN b
    ELSE IF b = 0 THEN a
    ELSE (IF (a % 2 = 1) \/ (b % 2 = 1) THEN 1 ELSE 0) + 2 * BitOr(a \div 2, b \div 2)

\* (n & ((~n) >> 31)) + 7 : n when n >= 0, else 0, plus 7
ClampShift(n) == (IF n >= 0 THEN n ELSE 0) + 7

\* ------------------------------------------------------------------------
\* cp_errors (utf_toolkit.h)
\* ------------------------------------------------------------------------

AllBits ==
    { "Failed", "InvalidBuffer", "InvalidOffset", "MisalignedOffset",
      "MisalignedLength", "WriteOverflow", "ReadTruncated", "ReadExhausted",
      "NotEncodable", "NotDecodable", "InvalidPoint", "ExtendedUCS4",
      "Supplementary", "NonCharacter", "TruncatedPair", "SurrogatePair",
      "HighSurrogate", "LowSurrogate", "DelimitString", "IrregularForm",
      "BadSizeUTF8", "ModifiedUTF8", "OverlongUTF8", "ExtendedUTF8",
      "Untransformable", "NotEnoughBits", "DisallowedByte", "UnexpectedByte",
      "ReservedBit3", "ReservedBit2", "ReservedBit1", "ReservedBit0" }

ErrorsMask ==
    { "Failed", "InvalidBuffer", "InvalidOffset", "MisalignedOffset",
      "MisalignedLength", "WriteOverflow", "ReadTruncated", "NotEncodable",
      "NotDecodable", "BadSizeUTF8", "Untransformable", "NotEnoughBits",
      "DisallowedByte", "UnexpectedByte" }

WarningsMask ==
    { "ReadExhausted", "InvalidPoint", "ExtendedUCS4", "Supplementary",
      "NonCharacter", "TruncatedPair", "SurrogatePair", "HighSurrogate",
      "LowSurrogate", "DelimitString", "IrregularForm", "ModifiedUTF8",
      "OverlongUTF8", "ExtendedUTF8" }

\* U(ReservedBit3) | U(ReservedBit2) | U(ReservedBit1) | U(ReservedBit1)
ReservedMask == { "ReservedBit3", "ReservedBit2", "ReservedBit1", "ReservedBit1" }

NonReservedMask == AllBits \ ReservedMask

ByteIndexMask == { "ReservedBit2", "ReservedBit1", "ReservedBit0" }

BufferErrorsMask ==
    { "InvalidBuffer", "InvalidOffset", "MisalignedOffset", "MisalignedLength" }

\* any() and the explicit bool conversion
any(state) == (state \cap NonReservedMask) # {}

\* any(mask)
anyOf(state, mask) == (state \cap mask) # {}

\* none(mask)
noneOf(state, mask) == ~anyOf(state, mask)

error(state) == anyOf(state, ErrorsMask)

no_error(state) == ~error(state)

\* the bits of a uint32 index that fall in the low nibble, as bit names
IndexBits(index) ==
    (IF index % 2 = 1 THEN {"ReservedBit0"} ELSE {}) \cup
    (IF (index \div 2) % 2 = 1 THEN {"ReservedBit1"} ELSE {}) \cup
    (IF (index \div 4) % 2 = 1 THEN {"ReservedBit2"} ELSE {}) \cup
    (IF (index \div 8) % 2 = 1 THEN {"ReservedBit3"} ELSE {})

get_byte_index(state) ==
    (IF "ReservedBit0" \in state THEN 1 ELSE 0) +
    (IF "ReservedBit1" \in state THEN 2 ELSE 0) +
    (IF "ReservedBit2" \in state THEN 4 ELSE 0)

\* a set_byte_index that leaves the index bits as they were
set_byte_indexKept(state, index) == state

set_byte_index(state, index) ==
    (state \ ByteIndexMask) \cup (IndexBits(index) \cap ByteIndexMask)

\* a get_errors that names the fault of the cursor without the Failed bit
get_errorsUnflagged(t) ==
    (IF t.buffer = "nullptr" THEN {"InvalidBuffer"} ELSE {}) \cup
    (IF UGt(t.offset, t.length) THEN {"InvalidOffset"} ELSE {})

\* get_errors(text)
get_errors(t) ==
    (IF t.buffer = "nullptr" THEN {"Failed", "InvalidBuffer"} ELSE {}) \cup
    (IF UGt(t.offset, t.length) THEN {"Failed", "InvalidOffset"} ELSE {})

\* get_errors(text, alignment_mask), alignment_mask being 1 or 3
get_errors_aligned(t, alignment_mask) ==
    get_errors(t) \cup
    (IF t.offset % (alignment_mask + 1) # 0 THEN {"Failed", "MisalignedOffset"} ELSE {}) \cup
    (IF t.length % (alignment_mask + 1) # 0 THEN {"Failed", "MisalignedLength"} ELSE {})

\* ------------------------------------------------------------------------
\* code-point encoded length functions
\* ------------------------------------------------------------------------

lenUTF8(unicode, use_cesu, use_java) ==
    IF ULe(unicode, \h7FFFFFFF)
    THEN IF ULe(unicode, \h7F) THEN (IF use_java /\ unicode = 0 THEN 2 ELSE 1)
         ELSE IF ULe(unicode, \h7FF) THEN 2
         ELSE IF ULe(unicode, \hFFFF) THEN 3
         ELSE IF ULe(unicode, \h10FFFF) THEN (IF use_cesu THEN 6 ELSE 4)
         ELSE IF ULe(unicode, \h1FFFFF) THEN 4
         ELSE IF ULe(unicode, \h3FFFFFF) THEN 5
         ELSE 6
    ELSE 0

lenUTF16(unicode, use_ucs2) ==
    IF ULe(unicode, \h10FFFF)
    THEN IF ULe(unicode, \hFFFF) THEN 2
         ELSE IF ~use_ucs2 THEN 4
         ELSE 0
    ELSE 0

lenUTF32(unicode, use_cesu, use_ucs4) ==
    IF ULe(unicode, IF use_ucs4 THEN \h7FFFFFFF ELSE \h10FFFF)
    THEN (IF use_cesu /\ UGe(unicode, \h10000) /\ ULe(unicode, \h10FFFF) THEN 8 ELSE 4)
    ELSE 0

\* CUTF_BYTE::len, CUTF_BYTEns::len
lenBYTE(unicode) == IF unicode >= 0 /\ unicode <= \hFF THEN 1 ELSE 0

\* CUTF_ASCII::len, CUTF_ASCIIns::len, CUTF_CP1252::len, CUTF_CP1252ns::len,
\* CUTF_CP1252st::len : (unicode & 0x7f) == unicode
lenASCII(unicode) == IF unicode >= 0 /\ unicode <= \h7F THEN 1 ELSE 0

\* ------------------------------------------------------------------------
\* scalar tests shared by the encoders and decoders
\* ------------------------------------------------------------------------

\* (unicode <= 0x0000fdefu) || ((unicode & 0x0000fffeu) == 0x0000fffeu)
IsNonChar(unicode) == ULe(unicode, \hFDEF) \/ ((unicode % 65536) \div 2 = 32767)

\* (unicode & 0xfffff800u) == 0x0000d800u
IsSurrogate(unicode) == unicode \div 2048 = 27

\* (unicode & 0x00000400u) != 0
IsLowHalf(unicode) == (unicode \div 1024) % 2 = 1

\* the second unit of a pair with the scalar's low bits masked by 0x01ff
\* where the encoders mask by 0x03ff
SurHiNarrowMask(unicode) == \hDC00 + ((unicode - \h10000) % 512)

\* low 16 bits of (((s >> 10) | (s << 16)) & 0x03ff03ff) | 0xdc00d800,
\* with s = unicode - 0x10000
SurLo(unicode) == \hD800 + (((unicode - \h10000) \div 1024) % 1024)

\* high 16 bits of the same word
SurHi(unicode) == \hDC00 + ((unicode - \h10000) % 1024)

\* an encoder tail that stores the bytes that fit before it reports the
\* overflow
PutEager(errors, limit, out) ==
    IF ULt(limit, Len(out))
    THEN [errors |-> errors \cup {"Failed", "WriteOverflow"}, bytes |-> 0,
          out |-> SubSeq(out, 1, limit)]
    ELSE [errors |-> errors, bytes |-> Len(out), out |-> out]

\* the common tail of every encoder branch: overflow when limit < size,
\* else the bytes are stored at buffer[0..size-1]
Put(errors, limit, out) ==
    IF ULt(limit, Len(out))
    THEN [errors |-> errors \cup {"Failed", "WriteOverflow"}, bytes |-> 0, out |-> <<>>]
    ELSE [errors |-> errors, bytes |-> Len(out), out |-> out]

\* an encoder that did not reach its store
NoPut(errors) == [errors |-> errors, bytes |-> 0, out |-> <<>>]

\* ------------------------------------------------------------------------
\* low level code-point encoding functions
\* ------------------------------------------------------------------------

encodeBYTE(t, unicode, use_ascii) ==
    LET e0 == get_errors(t)
        cls == IF UGe(unicode, \hD800)
               THEN IF UGt(unicode, \h10FFFF) THEN {"ExtendedUCS4"}
                    ELSE IF UGe(unicode, \hFDD0)
                    THEN (IF IsNonChar(unicode) THEN {"NonCharacter"} ELSE {}) \cup
                         (IF UGt(unicode, \hFFFF) THEN {"Supplementary"} ELSE {})
                    ELSE IF IsSurrogate(unicode)
                    THEN (IF IsLowHalf(unicode) THEN {"LowSurrogate"} ELSE {"HighSurrogate"})
                    ELSE {}
               ELSE {}
        e1 == IF ULe(unicode, 0)
              THEN e0 \cup (IF unicode # 0
                            THEN {"Failed", "NotEncodable", "InvalidPoint", "NotEnoughBits"}
                            ELSE {"DelimitString"})
              ELSE IF UGt(unicode, IF use_ascii THEN \h7F ELSE \hFF)
              THEN e0 \cup {"Failed", "NotEncodable", "NotEnoughBits"} \cup cls
              ELSE e0
    IN  IF no_error(e1)
        THEN Put(e1, t.length - t.offset, <<unicode % 256>>)
        ELSE NoPut(e1)

encodeUTF8(t, unicode, use_cesu, use_java) ==
    LET e0 == get_errors(t)
        e1 == IF ULe(unicode, 0)
              THEN e0 \cup (IF unicode # 0
                            THEN {"Failed", "NotEncodable", "InvalidPoint", "NotEnoughBits"}
                            ELSE IF use_java THEN {"ModifiedUTF8"} ELSE {"DelimitString"})
              ELSE IF UGe(unicode, \hD800)
              THEN IF UGt(unicode, \h10FFFF)
                   THEN e0 \cup (IF UGt(unicode, \h1FFFFF)
                                 THEN {"ExtendedUTF8", "ExtendedUCS4", "IrregularForm"}
                                 ELSE {"ExtendedUCS4", "IrregularForm"})
                   ELSE IF UGe(unicode, \hFDD0)
                   THEN e0 \cup (IF IsNonChar(unicode) THEN {"NonCharacter"} ELSE {}) \cup
                        (IF UGt(unicode, \hFFFF)
                         THEN (IF use_cesu THEN {"Supplementary", "SurrogatePair"}
                               ELSE {"Supplementary"})
                         ELSE {})
                   ELSE IF IsSurrogate(unicode)
                   THEN e0 \cup (IF IsLowHalf(unicode)
                                 THEN {"LowSurrogate", "IrregularForm"}
                                 ELSE {"HighSurrogate", "IrregularForm"})
                   ELSE e0
              ELSE e0
        limit == t.length - t.offset
    IN  IF ~no_error(e1) THEN NoPut(e1)
        ELSE IF ULe(unicode, \h7F)
        THEN IF "ModifiedUTF8" \in e1
             THEN Put(e1, limit, <<\hC0, \h80>>)
             ELSE Put(e1, limit, <<unicode % 256>>)
        ELSE IF ULe(unicode, \h7FF)
        THEN Put(e1, limit, <<\hC0 + (ShrByte(unicode, 6) % 64),
                              \h80 + (unicode % 64)>>)
        ELSE IF ULe(unicode, \hFFFF)
        THEN Put(e1, limit, <<\hE0 + (ShrByte(unicode, 12) % 32),
                              \h80 + (ShrByte(unicode, 6) % 64),
                              \h80 + (unicode % 64)>>)
        ELSE IF ULe(unicode, \h10FFFF) /\ "SurrogatePair" \in e1
        THEN Put(e1, limit, <<\hE0 + ((SurLo(unicode) \div 4096) % 16),
                              \h80 + ((SurLo(unicode) \div 64) % 64),
                              \h80 + (SurLo(unicode) % 64),
                              \hE0 + ((SurHi(unicode) \div 4096) % 16),
                              \h80 + ((SurHi(unicode) \div 64) % 64),
                              \h80 + (SurHi(unicode) % 64)>>)
        ELSE IF ULe(unicode, \h1FFFFF)
        THEN Put(e1, limit, <<\hF0 + (ShrByte(unicode, 18) % 16),
                              \h80 + (ShrByte(unicode, 12) % 64),
                              \h80 + (ShrByte(unicode, 6) % 64),
                              \h80 + (unicode % 64)>>)
        ELSE IF ULe(unicode, \h3FFFFFF)
        THEN Put(e1, limit, <<\hF8 + (ShrByte(unicode, 24) % 8),
                              \h80 + (ShrByte(unicode, 18) % 64),
                              \h80 + (ShrByte(unicode, 12) % 64),
                              \h80 + (ShrByte(unicode, 6) % 64),
                              \h80 + (unicode % 64)>>)
        ELSE Put(e1, limit, <<\hFC + (ShrByte(unicode, 30) % 4),
                              \h80 + (ShrByte(unicode, 24) % 64),
                              \h80 + (ShrByte(unicode, 18) % 64),
                              \h80 + (ShrByte(unicode, 12) % 64),
                              \h80 + (ShrByte(unicode, 6) % 64),
                              \h80 + (unicode % 64)>>)

\* a 16 bit unit stored high byte first whatever the byte order asked for
Unit16BigEndian(u, le) == <<(u \div 256) % 256, u % 256>>

\* the two bytes of a 16 bit unit in buffer order
Unit16(u, le) == IF le THEN <<u % 256, (u \div 256) % 256>>
                 ELSE <<(u \div 256) % 256, u % 256>>

\* the four bytes of a 32 bit unit in buffer order
Unit32(u, le) ==
    IF le THEN <<ShrByte(u, 0), ShrByte(u, 8), ShrByte(u, 16), ShrByte(u, 24)>>
    ELSE <<ShrByte(u, 24), ShrByte(u, 16), ShrByte(u, 8), ShrByte(u, 0)>>

encodeUTF16(t, unicode, le, use_ucs2) ==
    LET e0 == get_errors_aligned(t, 1)
        e1 == IF ULe(unicode, 0)
              THEN e0 \cup (IF unicode # 0
                            THEN {"Failed", "NotEncodable", "InvalidPoint", "NotEnoughBits"}
                            ELSE {"DelimitString"})
              ELSE IF UGe(unicode, \hD800)
              THEN IF UGt(unicode, \h10FFFF)
                   THEN e0 \cup {"Failed", "ExtendedUCS4", "NotEnoughBits"}
                   ELSE IF UGe(unicode, \hFDD0)
                   THEN e0 \cup (IF IsNonChar(unicode) THEN {"NonCharacter"} ELSE {}) \cup
                        (IF UGt(unicode, \hFFFF)
                         THEN (IF use_ucs2 THEN {"Failed", "Supplementary", "NotEnoughBits"}
                               ELSE {"Supplementary", "SurrogatePair"})
                         ELSE {})
                   ELSE IF IsSurrogate(unicode)
                   THEN e0 \cup (IF IsLowHalf(unicode)
                                 THEN {"LowSurrogate", "IrregularForm"}
                                 ELSE {"HighSurrogate", "IrregularForm"})
                   ELSE e0
              ELSE e0
        limit == t.length - t.offset
    IN  IF ~no_error(e1) THEN NoPut(e1)
        ELSE IF "SurrogatePair" \in e1
        THEN Put(e1, limit, Unit16(SurLo(unicode), le) \o Unit16(SurHi(unicode), le))
        ELSE Put(e1, limit, Unit16(unicode % 65536, le))

encodeUTF32(t, unicode, le, use_cesu, use_ucs4) ==
    LET e0 == get_errors_aligned(t, 3)
        e1 == IF ULe(unicode, 0)
              THEN e0 \cup (IF unicode # 0 THEN {"InvalidPoint"} ELSE {"DelimitString"})
              ELSE IF UGe(unicode, \hD800)
              THEN IF UGt(unicode, \h10FFFF)
                   THEN e0 \cup (IF use_ucs4 THEN {"ExtendedUCS4"}
                                 ELSE {"ExtendedUCS4", "IrregularForm"})
                   ELSE IF UGe(unicode, \hFDD0)
                   THEN e0 \cup (IF IsNonChar(unicode) THEN {"NonCharacter"} ELSE {}) \cup
                        (IF UGt(unicode, \hFFFF)
                         THEN (IF use_cesu THEN {"Supplementary", "SurrogatePair"}
                               ELSE {"Supplementary"})
                         ELSE {})
                   ELSE IF IsSurrogate(unicode)
                   THEN e0 \cup (IF IsLowHalf(unicode)
                                 THEN {"LowSurrogate", "IrregularForm"}
                                 ELSE {"HighSurrogate", "IrregularForm"})
                   ELSE e0
              ELSE e0
        limit == t.length - t.offset
    IN  IF ~no_error(e1) THEN NoPut(e1)
        ELSE IF "SurrogatePair" \in e1
        THEN Put(e1, limit, Unit32(SurLo(unicode), le) \o Unit32(SurHi(unicode), le))
        ELSE Put(e1, limit, Unit32(unicode, le))

\* ------------------------------------------------------------------------
\* Unicode / Windows code-page 1252 transcoding (unicode_utilities.cpp)
\* ------------------------------------------------------------------------

isCP1252UndefinedC1(unicode) == unicode \in {\h81, \h8D, \h8F, \h90, \h9D}

translate ==
    << \h20AC, \h0081, \h201A, \h0192, \h201E, \h2026, \h2020, \h2021,
       \h02C6, \h2030, \h0160, \h2039, \h0152, \h008D, \h017D, \h008F,
       \h0090, \h2018, \h2019, \h201C, \h201D, \h2022, \h2013, \h2014,
       \h02DC, \h2122, \h0161, \h203A, \h0153, \h009D, \h017E, \h0178 >>

\* cp1252ToUnicode: [ok, unicode]; strictness is TRUE for StrictUndefined
cp1252ToUnicode(cp1252, strictness) ==
    LET index == IF cp1252 >= \h80 THEN cp1252 - \h80 ELSE cp1252 + \h80
        unicode == IF index < 32 THEN translate[index + 1] ELSE cp1252
    IN  IF strictness /\ isCP1252UndefinedC1(unicode)
        THEN [ok |-> FALSE, unicode |-> 0]
        ELSE [ok |-> TRUE, unicode |-> unicode]

\* the switch of unicodeToCP1252, as <<unicode, cp1252>> pairs
switchCP1252 ==
    { <<\h0152, \h8C>>, <<\h0153, \h9C>>, <<\h0160, \h8A>>, <<\h0161, \h9A>>,
      <<\h0178, \h9F>>, <<\h017D, \h8E>>, <<\h017E, \h9E>>, <<\h0192, \h83>>,
      <<\h02C6, \h88>>, <<\h02DC, \h98>>, <<\h2013, \h96>>, <<\h2014, \h97>>,
      <<\h2018, \h91>>, <<\h2019, \h92>>, <<\h201A, \h82>>, <<\h201C, \h93>>,
      <<\h201D, \h94>>, <<\h201E, \h84>>, <<\h2020, \h86>>, <<\h2021, \h87>>,
      <<\h2022, \h95>>, <<\h2026, \h85>>, <<\h2030, \h89>>, <<\h2039, \h8B>>,
      <<\h203A, \h9B>>, <<\h20AC, \h80>>, <<\h2122, \h99>> }

\* unicodeToCP1252: [ok, cp1252]; strictness is TRUE for StrictUndefined
unicodeToCP1252(unicode, strictness) ==
    IF ULe(unicode, \hFF)
    THEN IF ULe(unicode, \h7F) \/ UGe(unicode, \hA0)
            \/ (~strictness /\ isCP1252UndefinedC1(unicode))
         THEN [ok |-> TRUE, cp1252 |-> unicode % 256]
         ELSE [ok |-> FALSE, cp1252 |-> 0]
    ELSE IF \E p \in switchCP1252 : p[1] = unicode
    THEN [ok |-> TRUE, cp1252 |-> (CHOOSE p \in switchCP1252 : p[1] = unicode)[2]]
    ELSE [ok |-> FALSE, cp1252 |-> 0]

encodeCP1252(t, unicode, strict) ==
    LET e0 == get_errors(t)
        conv == unicodeToCP1252(unicode, strict)
        cls == IF UGe(unicode, \hD800)
               THEN IF UGt(unicode, \h10FFFF) THEN {"ExtendedUCS4"}
                    ELSE IF UGe(unicode, \hFDD0)
                    THEN (IF IsNonChar(unicode) THEN {"NonCharacter"} ELSE {}) \cup
                         (IF UGt(unicode, \hFFFF) THEN {"Supplementary"} ELSE {})
                    ELSE IF IsSurrogate(unicode)
                    THEN (IF IsLowHalf(unicode) THEN {"LowSurrogate"} ELSE {"HighSurrogate"})
                    ELSE {}
               ELSE {}
        e1 == IF ULe(unicode, 0)
              THEN e0 \cup (IF unicode # 0
                            THEN {"Failed", "NotEncodable", "InvalidPoint", "NotEnoughBits"}
                            ELSE {"DelimitString"})
              ELSE IF ~conv.ok
              THEN e0 \cup {"Failed", "NotEncodable"} \cup cls
              ELSE e0
    IN  IF no_error(e1)
        THEN Put(e1, t.length - t.offset, <<IF unicode = 0 THEN 0 ELSE conv.cp1252>>)
        ELSE NoPut(e1)

\* ------------------------------------------------------------------------
\* fetchUTF8 and the decoders
\* ------------------------------------------------------------------------

\* a coalescing loop that stops at its first index
FirstLeadAtOnce(m, base, from, to) == from

\* the for-loops "for (index = from; index < to; ++index) if (P(buffer[index]))
\* { count = index; break; }" : the index the loop stops at, or `to`
FirstLead(m, base, from, to) ==
    LET hit == {i \in from..(to - 1) : IsLead(At(m, base + i))}
    IN  IF hit = {} THEN to ELSE CHOOSE i \in hit : \A j \in hit : i <= j

FirstNonCont(m, base, from, to) ==
    LET hit == {i \in from..(to - 1) : ~IsCont(At(m, base + i))}
    IN  IF hit = {} THEN to ELSE CHOOSE i \in hit : \A j \in hit : i <= j

\* (buffer[index] & 0x80u) != 0x80u
FirstASCII(m, base, from, to) ==
    LET hit == {i \in from..(to - 1) : At(m, base + i) < \h80}
    IN  IF hit = {} THEN to ELSE CHOOSE i \in hit : \A j \in hit : i <= j

RECURSIVE Accum(_, _, _, _, _)
\* value = ((value << 6) | (byte & 0x3fu)) for index..count-1
Accum(m, base, value, index, count) ==
    IF index >= count THEN value
    ELSE Accum(m, base, value * 64 + (At(m, base + index) % 64), index + 1, count)

\* the failure bits for an offending byte
BadByte(byte) ==
    {"Failed", "NotDecodable"} \cup
    (IF byte >= \hFE THEN {"DisallowedByte"} ELSE {"UnexpectedByte"})

\* fetchUTF8(buffer, size, unicode, bytes, coalesce) with buffer = &m[base];
\* reads is the number of bytes buffer[0..reads-1] the call loaded
fetchUTF8(m, base, size, coalesce) ==
    LET byte == At(m, base)
    IN  IF ULt(size, 1)
        THEN [errors |-> {"ReadExhausted"}, unicode |-> 0, bytes |-> 0, reads |-> 0]
        ELSE IF (byte + 2) % 256 <= \hC1
        THEN IF byte > \h7F
             THEN LET count == IF coalesce THEN FirstLead(m, base, 1, size) ELSE 1
                  IN  [errors |-> BadByte(byte), unicode |-> byte, bytes |-> count,
                       reads |-> IF coalesce /\ count < size THEN count + 1 ELSE count]
             ELSE [errors |-> {}, unicode |-> byte, bytes |-> 1, reads |-> 1]
        ELSE LET count0 == IF byte <= \hEF THEN (byte \div 32) % 4
                           ELSE IF byte <= \hF7 THEN 4
                           ELSE ((byte \div 4) % 8) - 1
                 e0 == IF byte > \hF7 THEN {"ExtendedUTF8"} ELSE {}
                 trunc == UGt(count0, size)
                 count1 == IF trunc THEN size ELSE count0
                 stop == FirstNonCont(m, base, 1, count1)
                 bad == stop < count1
                 e1 == IF bad
                       THEN set_byte_index(e0 \cup BadByte(At(m, base + stop)), stop)
                       ELSE IF trunc
                       THEN e0 \cup {"Failed", "NotDecodable", "ReadTruncated"}
                       ELSE e0
                 value == Accum(m, base, byte % (2 ^ (7 - count1)), 1, count1)
                 n == BitOr(count1, count1 * 4) - 11
                 e2 == IF no_error(e1) /\ count1 > 1 /\ value \div (2 ^ ClampShift(n)) = 0
                       THEN e1 \cup (IF value = 0 /\ count1 = 2 THEN {"ModifiedUTF8"}
                                     ELSE {"OverlongUTF8"})
                       ELSE e1
             IN  [errors |-> e2,
                  unicode |-> IF no_error(e1) THEN value ELSE byte,
                  bytes |-> stop,
                  reads |-> IF bad THEN stop + 1 ELSE count1]

\* max of two counts
Max(a, b) == IF a >= b THEN a ELSE b

decodeBYTE(m, t, use_ascii, coalesce) ==
    LET e0 == get_errors(t)
        limit == t.length - t.offset
        byte == At(m, t.offset)
    IN  IF ~no_error(e0) THEN [errors |-> e0, unicode |-> 0, bytes |-> 0, reads |-> 0]
        ELSE IF ULt(limit, 1)
        THEN [errors |-> e0 \cup (IF limit # 0 THEN {"Failed", "ReadTruncated"}
                                  ELSE {"ReadExhausted"}),
              unicode |-> 0, bytes |-> 0, reads |-> 0]
        ELSE IF use_ascii /\ byte >= \h80
        THEN LET count == IF coalesce THEN FirstASCII(m, t.offset, 1, limit) ELSE 1
             IN  [errors |-> e0 \cup {"Failed", "NotDecodable", "DisallowedByte"},
                  unicode |-> byte, bytes |-> count,
                  reads |-> IF coalesce /\ count < limit THEN count + 1 ELSE count]
        ELSE [errors |-> e0 \cup (IF byte = 0 THEN {"DelimitString"} ELSE {}),
              unicode |-> byte, bytes |-> 1, reads |-> 1]

\* the irregular-form mask of decodeUTF8
IrregularMask(use_java) ==
    (IF use_java THEN {} ELSE {"ModifiedUTF8"}) \cup
    {"OverlongUTF8", "ExtendedUTF8", "ExtendedUCS4", "HighSurrogate", "LowSurrogate"}

\* a ^ b on flag sets
Xor(a, b) == (a \ b) \cup (b \ a)

\* the classification of a fetched scalar u: the diagnostic bits it adds to
\* errors; check is the fetch that follows a leading surrogate, paired whether
\* the two were joined into the scalar joined
ClassifyUTF8(errors, u, use_cesu, check, paired, joined) ==
    IF UGe(u, \hD800)
    THEN IF UGt(u, \h10FFFF) THEN errors \cup {"ExtendedUCS4"}
         ELSE IF UGe(u, \hFDD0)
         THEN errors \cup (IF IsNonChar(u) THEN {"NonCharacter"} ELSE {}) \cup
              (IF UGt(u, \hFFFF) THEN {"Supplementary"} ELSE {})
         ELSE IF IsSurrogate(u)
         THEN IF IsLowHalf(u) THEN errors \cup {"LowSurrogate"}
              ELSE IF ~use_cesu THEN errors \cup {"HighSurrogate"}
              ELSE IF anyOf(check.errors, {"ReadTruncated", "ReadExhausted"})
              THEN errors \cup {"HighSurrogate", "TruncatedPair"}
              ELSE IF paired
              THEN Xor(errors \cup {"HighSurrogate"} \cup check.errors,
                       {"SurrogatePair", "Supplementary", "HighSurrogate"}) \cup
                   (IF (joined % 65536) \div 2 = 32767 THEN {"NonCharacter"} ELSE {})
              ELSE errors \cup {"HighSurrogate"}
         ELSE errors
    ELSE IF u = 0 /\ noneOf(errors, {"ModifiedUTF8", "OverlongUTF8"})
    THEN errors \cup {"DelimitString"}
    ELSE errors

\* an end of decodeUTF8 that marks the irregular form and leaves the byte
\* count as fetched
FinishUTF8KeepBytes(m, t, use_java, strict, errors, unicode, bytes, reads) ==
    IF anyOf(errors, IrregularMask(use_java))
    THEN [errors |-> errors \cup {"IrregularForm"} \cup
                     (IF strict THEN {"Failed", "NotDecodable"} ELSE {}),
          unicode |-> unicode, bytes |-> bytes, reads |-> reads]
    ELSE [errors |-> errors, unicode |-> unicode, bytes |-> bytes, reads |-> reads]

\* an end of decodeUTF8 that counts the modified form as irregular under
\* use_java as well
FinishUTF8Plain(m, t, use_java, strict, errors, unicode, bytes, reads) ==
    IF anyOf(errors, IrregularMask(FALSE))
    THEN IF strict
         THEN [errors |-> errors \cup {"IrregularForm", "Failed", "NotDecodable"},
               unicode |-> At(m, t.offset), bytes |-> 1, reads |-> reads]
         ELSE [errors |-> errors \cup {"IrregularForm"}, unicode |-> unicode,
               bytes |-> bytes, reads |-> reads]
    ELSE [errors |-> errors, unicode |-> unicode, bytes |-> bytes, reads |-> reads]

\* the end of decodeUTF8: the irregular-form test on the classified scalar
FinishUTF8(m, t, use_java, strict, errors, unicode, bytes, reads) ==
    IF anyOf(errors, IrregularMask(use_java))
    THEN IF strict
         THEN [errors |-> errors \cup {"IrregularForm", "Failed", "NotDecodable"},
               unicode |-> At(m, t.offset), bytes |-> 1, reads |-> reads]
         ELSE [errors |-> errors \cup {"IrregularForm"}, unicode |-> unicode,
               bytes |-> bytes, reads |-> reads]
    ELSE [errors |-> errors, unicode |-> unicode, bytes |-> bytes, reads |-> reads]

\* a decodeUTF8 that leaves a leading surrogate alone whatever follows it
PairUTF8Alone(m, t, use_java, strict, f, check) ==
    FinishUTF8(m, t, use_java, strict,
               ClassifyUTF8(f.errors, f.unicode, TRUE, check, FALSE, 0),
               f.unicode, f.bytes, Max(f.reads, f.bytes + check.reads))

\* decodeUTF8 on a leading surrogate f under use_cesu, check being the fetch
\* of the sequence that follows it
PairUTF8(m, t, use_java, strict, f, check) ==
    IF ~anyOf(check.errors, {"ReadTruncated", "ReadExhausted"})
       /\ no_error(check.errors) /\ (check.unicode \div 1024 = 55)
    THEN FinishUTF8(m, t, use_java, strict,
                    ClassifyUTF8(f.errors, f.unicode, TRUE, check, TRUE,
                                 ((f.unicode % 1024) * 1024) + (check.unicode % 1024)
                                 + \h10000),
                    ((f.unicode % 1024) * 1024) + (check.unicode % 1024) + \h10000,
                    f.bytes + check.bytes, Max(f.reads, f.bytes + check.reads))
    ELSE FinishUTF8(m, t, use_java, strict,
                    ClassifyUTF8(f.errors, f.unicode, TRUE, check, FALSE, 0),
                    f.unicode, f.bytes, Max(f.reads, f.bytes + check.reads))

\* a decodeUTF8 that consumes nothing when the fetch failed
FetchedUTF8Stalls(m, t, use_cesu, use_java, strict, f) ==
    [errors |-> f.errors, unicode |-> f.unicode,
     bytes |-> IF no_error(f.errors) THEN f.bytes ELSE 0, reads |-> f.reads]

\* decodeUTF8 once the sequence f has been fetched
FetchedUTF8(m, t, use_cesu, use_java, strict, f) ==
    IF ~no_error(f.errors)
    THEN [errors |-> f.errors, unicode |-> f.unicode,
          bytes |-> IF strict /\ f.bytes > 1 THEN 1 ELSE f.bytes, reads |-> f.reads]
    ELSE IF use_cesu /\ IsSurrogate(f.unicode) /\ ~IsLowHalf(f.unicode)
    THEN PairUTF8(m, t, use_java, strict, f,
                  fetchUTF8(m, t.offset + f.bytes, (t.length - t.offset) - f.bytes, FALSE))
    ELSE FinishUTF8(m, t, use_java, strict,
                    ClassifyUTF8(f.errors, f.unicode, use_cesu, f, FALSE, 0),
                    f.unicode, f.bytes, f.reads)

decodeUTF8(m, t, use_cesu, use_java, strict, coalesce) ==
    IF ~no_error(get_errors(t))
    THEN [errors |-> get_errors(t), unicode |-> 0, bytes |-> 0, reads |-> 0]
    ELSE FetchedUTF8(m, t, use_cesu, use_java, strict,
                     fetchUTF8(m, t.offset, t.length - t.offset, coalesce /\ ~strict))

\* a 16 bit unit read from buffer[i], buffer[i+1] of the text
Get16(m, base, i, le) ==
    IF le THEN At(m, base + i + 1) * 256 + At(m, base + i)
    ELSE At(m, base + i) * 256 + At(m, base + i + 1)

\* a 32 bit unit read from buffer[i..i+3] of the text, as int32
Get32(m, base, i, le) ==
    LET b3 == IF le THEN At(m, base + i + 3) ELSE At(m, base + i)
        b2 == IF le THEN At(m, base + i + 2) ELSE At(m, base + i + 1)
        b1 == IF le THEN At(m, base + i + 1) ELSE At(m, base + i + 2)
        b0 == IF le THEN At(m, base + i) ELSE At(m, base + i + 3)
    IN  (IF b3 >= 128 THEN b3 - 256 ELSE b3) * 16777216 + b2 * 65536 + b1 * 256 + b0

\* the result of a decoder that stopped before loading a byte
NoGet(errors) == [errors |-> errors, unicode |-> 0, bytes |-> 0, reads |-> 0]

\* (limit ? Failed | ReadTruncated : ReadExhausted)
OverRun(limit) == IF limit # 0 THEN {"Failed", "ReadTruncated"} ELSE {"ReadExhausted"}

decodeUTF16(m, t, le, use_ucs2) ==
    LET e0 == get_errors_aligned(t, 1)
        limit == t.length - t.offset
        u == Get16(m, t.offset, 0, le)
        lowbits == Get16(m, t.offset, 2, le)
        leading == UGe(u, \hD800) /\ ~UGe(u, \hFDD0) /\ IsSurrogate(u)
                   /\ ~IsLowHalf(u) /\ ~use_ucs2
        paired == leading /\ ~ULt(limit, 4) /\ (lowbits \div 1024 = 55)
        joined == ((u % 1024) * 1024) + (lowbits % 1024) + \h10000
        e1 == IF UGe(u, \hD800)
              THEN IF UGe(u, \hFDD0)
                   THEN e0 \cup (IF IsNonChar(u) THEN {"NonCharacter"} ELSE {})
                   ELSE IF IsSurrogate(u)
                   THEN IF IsLowHalf(u) THEN e0 \cup {"IrregularForm", "LowSurrogate"}
                        ELSE IF use_ucs2 THEN e0 \cup {"IrregularForm", "HighSurrogate"}
                        ELSE IF ULt(limit, 4)
                        THEN e0 \cup {"IrregularForm", "HighSurrogate", "TruncatedPair"}
                        ELSE IF paired
                        THEN Xor(e0 \cup {"IrregularForm", "HighSurrogate"},
                                 {"SurrogatePair", "Supplementary", "HighSurrogate",
                                  "IrregularForm"}) \cup
                             (IF (joined % 65536) \div 2 = 32767 THEN {"NonCharacter"} ELSE {})
                        ELSE e0 \cup {"IrregularForm", "HighSurrogate"}
                   ELSE e0
              ELSE IF u = 0 THEN e0 \cup {"DelimitString"}
              ELSE e0
    IN  IF ~no_error(e0) THEN NoGet(e0)
        ELSE IF ULt(limit, 2) THEN NoGet(e0 \cup OverRun(limit))
        ELSE [errors |-> e1,
              unicode |-> IF paired THEN joined ELSE u,
              bytes |-> IF paired THEN 4 ELSE 2,
              reads |-> IF leading /\ ~ULt(limit, 4) THEN 4 ELSE 2]

decodeUTF32(m, t, le, use_cesu, use_ucs4) ==
    LET e0 == get_errors_aligned(t, 3)
        limit == t.length - t.offset
        u == Get32(m, t.offset, 0, le)
        lowbits == Get32(m, t.offset, 4, le)
        leading == ~ULe(u, 0) /\ UGe(u, \hD800) /\ ~UGt(u, \h10FFFF) /\ ~UGe(u, \hFDD0)
                   /\ IsSurrogate(u) /\ ~IsLowHalf(u) /\ use_cesu
        paired == leading /\ ~ULt(limit, 8) /\ (lowbits \div 1024 = 55)
        joined == ((u % 1024) * 1024) + (lowbits % 1024) + \h10000
        e1 == IF ULe(u, 0)
              THEN e0 \cup (IF u # 0 THEN {"InvalidPoint", "IrregularForm"}
                            ELSE {"DelimitString"})
              ELSE IF UGe(u, \hD800)
              THEN IF UGt(u, \h10FFFF)
                   THEN e0 \cup (IF use_ucs4 THEN {"ExtendedUCS4"}
                                 ELSE {"ExtendedUCS4", "IrregularForm"})
                   ELSE IF UGe(u, \hFDD0)
                   THEN e0 \cup (IF IsNonChar(u) THEN {"NonCharacter"} ELSE {}) \cup
                        (IF UGt(u, \hFFFF) THEN {"Supplementary"} ELSE {})
                   ELSE IF IsSurrogate(u)
                   THEN IF IsLowHalf(u) THEN e0 \cup {"IrregularForm", "LowSurrogate"}
                        ELSE IF ~use_cesu THEN e0 \cup {"IrregularForm", "HighSurrogate"}
                        ELSE IF ULt(limit, 8)
                        THEN e0 \cup {"IrregularForm", "HighSurrogate", "TruncatedPair"}
                        ELSE IF paired
                        THEN Xor(e0 \cup {"IrregularForm", "HighSurrogate"},
                                 {"SurrogatePair", "Supplementary", "HighSurrogate",
                                  "IrregularForm"}) \cup
                             (IF (joined % 65536) \div 2 = 32767 THEN {"NonCharacter"} ELSE {})
                        ELSE e0 \cup {"IrregularForm", "HighSurrogate"}
                   ELSE e0
              ELSE e0
    IN  IF ~no_error(e0) THEN NoGet(e0)
        ELSE IF ULt(limit, 4) THEN NoGet(e0 \cup OverRun(limit))
        ELSE [errors |-> e1,
              unicode |-> IF paired THEN joined ELSE u,
              bytes |-> IF paired THEN 8 ELSE 4,
              reads |-> IF leading /\ ~ULt(limit, 8) THEN 8 ELSE 4]

\* the index at which decodeCP1252's coalescing loop stops, or `to`
FirstCP1252(m, base, from, to, strictness) ==
    LET hit == {i \in from..(to - 1) : cp1252ToUnicode(At(m, base + i), strictness).ok}
    IN  IF hit = {} THEN to ELSE CHOOSE i \in hit : \A j \in hit : i <= j

decodeCP1252(m, t, strict, coalesce) ==
    LET e0 == get_errors(t)
        limit == t.length - t.offset
        conv == cp1252ToUnicode(At(m, t.offset), strict)
        count == IF coalesce THEN FirstCP1252(m, t.offset, 1, limit, strict) ELSE 1
    IN  IF ~no_error(e0) THEN NoGet(e0)
        ELSE IF ULt(limit, 1) THEN NoGet(e0 \cup OverRun(limit))
        ELSE IF ~conv.ok
        THEN [errors |-> e0 \cup {"Failed", "NotDecodable"},
              \* every path leaves 0: the failed conversion stores 0, and the
              \* conversion that ends the coalescing loop is overwritten with 0
              unicode |-> 0,
              bytes |-> count,
              reads |-> IF coalesce /\ count < limit THEN count + 1 ELSE count]
        ELSE [errors |-> e0 \cup (IF conv.unicode = 0 THEN {"DelimitString"} ELSE {}),
              unicode |-> conv.unicode, bytes |-> 1, reads |-> 1]

\* ------------------------------------------------------------------------
\* internal low level UTF8 sequence scanning functions
\* ------------------------------------------------------------------------

\* the test that ends a scanning loop: "lead" (byte & 0xc0) != 0x80 && byte <= 0xfd,
\* "leadst" the same up to 0xf7, "noncont" (byte & 0xc0) != 0x80
Stops(kind, byte) ==
    CASE kind = "lead"    -> IsLead(byte)
      [] kind = "leadst"  -> IsLeadSt(byte)
      [] kind = "noncont" -> ~IsCont(byte)

\* how many times "while (limit > count) { ...; ++count; }" can iterate; a
\* scan that would leave the modelled memory is cut at the first byte outside
\* it (where At yields a byte that ends every scan)
Span(m, count, limit) ==
    LET n == IF ULt(count, limit) THEN limit - count ELSE 0
    IN  IF n < 0 \/ n > Len(m) + 1 THEN Len(m) + 1 ELSE n

\* while (limit > count) { byte = buffer[index]; if (Stops(byte)) break;
\*                         ++count; ++index; }
\* yields the final count and the set of indices loaded
Scan(m, kind, index, count, limit) ==
    LET n == Span(m, count, limit)
        hit == {k \in 0..(n - 1) : Stops(kind, At(m, index + k))}
        stop == IF hit = {} THEN n ELSE CHOOSE k \in hit : \A j \in hit : k <= j
    IN  [count |-> count + stop,
         rd |-> {index + k : k \in 0..(IF hit = {} THEN stop - 1 ELSE stop)}]

\* (byte & 0xf0u) == 0xa0u
IsHiNibbleA(byte) == byte \div 16 = 10

\* (byte & 0xf0u) == 0xb0u
IsHiNibbleB(byte) == byte \div 16 = 11

\* the closing loop "while (limit > count)" of stepSeqUTF8 from index, and
\* what the call returns: bytes, extra = count and the indices loaded
StepTail(m, index, count, limit, bytes, rd) ==
    LET tail == Scan(m, "lead", index, count, limit)
    IN  [bytes |-> bytes, extra |-> tail.count, rd |-> rd \cup tail.rd]

\* non-cesu: the length the lead byte announces, cut to check
PlainBytes(byte, check) ==
    LET plain == IF byte <= \hDF THEN (IF byte <= \h7F THEN 1 ELSE 2)
                 ELSE IF byte <= \hF7 THEN (IF byte <= \hEF THEN 3 ELSE 4)
                 ELSE (IF byte <= \hFB THEN 5 ELSE 6)
    IN  IF UGt(plain, check) THEN check ELSE plain

\* cesu: bytes before any pairing
CesuBytes(byte, check, limit) ==
    IF byte <= \h7F THEN 1
    ELSE IF byte <= \hDF THEN (IF UGe(limit, 2) THEN 2 ELSE check)
    ELSE IF byte <= \hEF THEN (IF UGe(check, 3) THEN 3 ELSE check)
    ELSE IF byte <= \hF7 THEN (IF UGe(check, 4) THEN 4 ELSE check)
    ELSE IF byte <= \hFB THEN (IF UGe(check, 5) THEN 5 ELSE check)
    ELSE (IF UGe(check, 6) THEN 6 ELSE check)

\* cesu: high_surrogate
CesuHigh(m, byte, check) ==
    IF byte <= \hDF THEN FALSE
    ELSE IF byte <= \hEF
    THEN UGe(check, 3) /\ byte = \hED /\ IsHiNibbleA(At(m, 1))
    ELSE IF byte <= \hF7
    THEN UGe(check, 4) /\ byte = \hF0 /\ At(m, 1) = \h8D /\ IsHiNibbleA(At(m, 2))
    ELSE IF byte <= \hFB
    THEN UGe(check, 5) /\ byte = \hF8 /\ At(m, 2) = \h8D /\ IsHiNibbleA(At(m, 3))
    ELSE UGe(check, 6) /\ byte = \hFC /\ At(m, 3) = \h8D /\ IsHiNibbleA(At(m, 4))

\* cesu: the indices the high_surrogate tests load
CesuHighRd(byte, check, high) ==
    (IF byte > \hDF /\ byte <= \hEF /\ UGe(check, 3) /\ byte = \hED THEN {1} ELSE {}) \cup
    (IF byte > \hEF /\ high THEN {1, 2, 3, 4} ELSE {})

\* cesu: extra as the switch on verify[0] leaves it, verify being buffer + v
CesuLow(m, v, check) ==
    CASE At(m, v) = \hED -> 3
      [] At(m, v) = \hF0 -> IF UGe(check, 4) /\ At(m, v + 1) = \h8D THEN 4 ELSE 0
      [] At(m, v) = \hF8 ->
           IF UGe(check, 5) /\ IsCont(At(m, v + 1)) /\ At(m, v + 2) = \h8D THEN 5 ELSE 0
      [] At(m, v) = \hFC ->
           IF UGe(check, 6) /\ IsCont(At(m, v + 1)) /\ IsCont(At(m, v + 2))
              /\ At(m, v + 3) = \h8D
           THEN 6 ELSE 0
      [] OTHER -> 0

\* cesu: "if (extra)" and the join of the two halves
StepJoin(m, offset, limit, count, bytes, found, rd) ==
    IF found = 0 THEN StepTail(m, offset + count, count - bytes, limit, bytes, rd)
    ELSE IF IsHiNibbleB(At(m, bytes + found - 2)) /\ IsCont(At(m, bytes + found - 1))
    THEN StepTail(m, offset + count + found, count - bytes, limit, bytes + found,
                  rd \cup {bytes + found - 2, bytes + found - 1})
    ELSE StepTail(m, offset + count, count - bytes, limit, bytes,
                  rd \cup {bytes + found - 2, bytes + found - 1})

\* cesu: "if (high_surrogate)"
StepCesu(m, offset, limit, count, bytes, high, rd) ==
    IF high /\ UGe(limit - bytes, 3)
    THEN StepJoin(m, offset, limit, count, bytes, CesuLow(m, bytes, limit - bytes),
                  rd \cup {bytes})
    ELSE StepTail(m, offset + count, count - bytes, limit, bytes, rd)

\* a sequence that starts with the lead byte; run is the loop over its
\* continuation bytes
StepLead(m, offset, limit, use_cesu, byte, run) ==
    IF use_cesu
    THEN StepCesu(m, offset, limit, run.count, CesuBytes(byte, run.count, limit),
                  CesuHigh(m, byte, run.count),
                  {offset} \cup run.rd
                  \cup CesuHighRd(byte, run.count, CesuHigh(m, byte, run.count)))
    ELSE StepTail(m, offset + run.count, run.count - PlainBytes(byte, run.count), limit,
                  PlainBytes(byte, run.count), {offset} \cup run.rd)

stepSeqUTF8(m, offset, limit, use_cesu) ==
    IF limit = 0 THEN [bytes |-> 0, extra |-> 0, rd |-> {}]
    ELSE IF IsLead(At(m, offset))
    THEN StepLead(m, offset, limit, use_cesu, At(m, offset),
                  Scan(m, "noncont", offset + 1, 1, limit))
    ELSE StepTail(m, offset + 1, 1, limit, 0, {offset})

stepSeqUTF8st(m, offset, limit, use_cesu, use_java) ==
    LET byte == At(m, offset)
        leading == byte * 256 + At(m, 1)
        two == UGe(limit, 2) /\ IsCont(At(m, 1))
        three == two /\ byte > \hDF /\ UGe(limit, 3) /\ IsCont(At(m, 2))
        four == three /\ byte > \hEF /\ UGe(limit, 4) /\ IsCont(At(m, 3))
        \* (leading & 0xffe0u) == 0xeda0u, (leading & 0xfff0u) == 0xeda0u
        surrogate == leading \div 32 = 1901
        pairing == use_cesu /\ (leading \div 16 = 3802) /\ UGe(limit, 6)
        bytes == IF ~IsLeadSt(byte) THEN 0
                 ELSE IF byte <= \h7F THEN 1
                 ELSE IF ~two THEN 0
                 ELSE IF byte <= \hDF
                 THEN (IF leading >= \hC280 \/ (use_java /\ leading = \hC080) THEN 2 ELSE 0)
                 ELSE IF ~three THEN 0
                 ELSE IF byte <= \hEF
                 THEN IF leading >= \hE0A0
                      THEN IF ~surrogate THEN 3
                           ELSE IF pairing /\ At(m, 3) = \hED /\ IsHiNibbleA(At(m, 4))
                                   /\ IsCont(At(m, 5))
                           THEN 6 ELSE 0
                      ELSE 0
                 ELSE IF ~four THEN 0
                 ELSE IF leading >= \hF090 /\ leading <= \hF48F THEN 4 ELSE 0
        headRd == IF IsLeadSt(byte) /\ byte > \h7F
                  THEN (IF UGe(limit, 2) THEN {1} ELSE {}) \cup
                       (IF two /\ byte > \hDF /\ UGe(limit, 3) THEN {2} ELSE {}) \cup
                       (IF three /\ byte > \hEF /\ UGe(limit, 4) THEN {3} ELSE {}) \cup
                       (IF three /\ byte <= \hEF /\ leading >= \hE0A0 /\ surrogate /\ pairing
                        THEN {3, 4, 5} ELSE {})
                  ELSE {}
        first == IF bytes # 0 THEN bytes ELSE 1
        tail == Scan(m, "leadst", offset + first, first, limit)
    IN  IF limit = 0 THEN [bytes |-> 0, extra |-> 0, rd |-> {}]
        ELSE [bytes |-> bytes, extra |-> tail.count - bytes,
              rd |-> {offset} \cup headRd \cup tail.rd]

\* the backward loop "while (limit > count) { --index; ++count; byte =
\* buffer[index]; if (byte <= top) { ++check; if (lead) break; } else check = 0; }":
\* the count at which it meets a lead byte (0 when it meets none), and check there
BackLead(m, offset, limit, top) ==
    LET n == Span(m, 0, limit)
        leads == {c \in 1..n : ~IsCont(At(m, offset - c)) /\ At(m, offset - c) <= top}
        c == IF leads = {} THEN 0 ELSE CHOOSE x \in leads : \A y \in leads : x <= y
        ill == {x \in 1..(c - 1) : At(m, offset - x) > top}
        reset == IF ill = {} THEN 0 ELSE CHOOSE x \in ill : \A y \in ill : x >= y
    IN  [n |-> n, count |-> c, check |-> c - reset]

\* backSeqUTF8 once its backward loop b has met the lead byte at index
BackFound(m, offset, limit, use_cesu, b, index, byte) ==
    LET check == b.check
        \* ---- cesu ----
        bytes0 == IF byte <= \h7F THEN 1
                  ELSE IF byte <= \hDF THEN (IF check >= 2 THEN 2 ELSE check)
                  ELSE IF byte <= \hEF THEN (IF check >= 3 THEN 3 ELSE check)
                  ELSE IF byte <= \hF7 THEN (IF check >= 4 THEN 4 ELSE check)
                  ELSE IF byte <= \hFB THEN (IF check >= 5 THEN 5 ELSE check)
                  ELSE (IF check >= 6 THEN 6 ELSE check)
        low_surrogate ==
            IF byte <= \hDF THEN FALSE
            ELSE IF byte <= \hEF
            THEN check >= 3 /\ byte = \hED /\ IsHiNibbleB(At(m, index + 1))
            ELSE IF byte <= \hF7
            THEN check >= 4 /\ byte = \hF0 /\ At(m, index + 1) = \h8D
                 /\ IsHiNibbleB(At(m, index + 2))
            ELSE IF byte <= \hFB
            THEN check >= 5 /\ byte = \hF8 /\ At(m, index + 2) = \h8D
                 /\ IsHiNibbleB(At(m, index + 3))
            ELSE check >= 6 /\ byte = \hFC /\ At(m, index + 3) = \h8D
                 /\ IsHiNibbleB(At(m, index + 4))
        check2 == limit - b.count
        cand == low_surrogate /\ UGe(check2, 3) /\ IsCont(At(m, index - 1))
                /\ IsHiNibbleA(At(m, index - 2))
        found == IF ~cand THEN 0
                 ELSE IF At(m, index - 3) = \hED THEN 3
                 ELSE IF At(m, index - 3) = \h8D /\ UGe(check2, 4)
                 THEN IF At(m, index - 4) = \hF0 THEN 4
                      ELSE IF At(m, index - 4) = \h80 /\ UGe(check2, 5)
                      THEN IF At(m, index - 5) = \hF8 THEN 5
                           ELSE IF At(m, index - 5) = \h80 /\ UGe(check2, 6)
                           THEN (IF At(m, index - 6) = \hFC THEN 6 ELSE 0)
                           ELSE 0
                      ELSE 0
                 ELSE 0
        cesuRd == (IF low_surrogate /\ UGe(check2, 3) THEN {index - 1, index - 2} ELSE {}) \cup
                  (IF cand THEN {index - 3} ELSE {}) \cup
                  (IF found > 3 THEN {index - k : k \in 4..found} ELSE {})
        \* ---- non-cesu ----
        plain0 == IF byte <= \hDF THEN (IF byte <= \h7F THEN 1 ELSE 2)
                  ELSE IF byte <= \hF7 THEN (IF byte <= \hEF THEN 3 ELSE 4)
                  ELSE (IF byte <= \hFB THEN 5 ELSE 6)
        plain == IF plain0 > check THEN check ELSE plain0
        \* ---- both ----
        bytes == IF use_cesu THEN bytes0 + found ELSE plain
        grown == IF use_cesu THEN found ELSE 0
    IN  [bytes |-> bytes, extra |-> (b.count + grown) - bytes,
         rd |-> {offset - k : k \in 1..b.count} \cup (IF use_cesu THEN cesuRd ELSE {})]

\* backSeqUTF8 after its backward loop b
BackScanned(m, offset, limit, use_cesu, b) ==
    IF b.count = 0
    THEN [bytes |-> 0, extra |-> b.n, rd |-> {offset - k : k \in 1..b.n}]
    ELSE BackFound(m, offset, limit, use_cesu, b, offset - b.count, At(m, offset - b.count))

backSeqUTF8(m, offset, limit, use_cesu) ==
    BackScanned(m, offset, limit, use_cesu, BackLead(m, offset, limit, \hFD))

\* backSeqUTF8st once its backward loop b has met the lead byte at index
BackFoundSt(m, offset, limit, use_cesu, use_java, b, index, byte, leading) ==
    LET check == b.check
        two == check >= 2 /\ IsCont(At(m, index + 1))
        three == two /\ byte > \hDF /\ check >= 3 /\ IsCont(At(m, index + 2))
        four == three /\ byte > \hEF /\ check >= 4 /\ IsCont(At(m, index + 3))
        surrogate == leading \div 32 = 1901
        \* (leading & 0xfff0u) == 0xedb0u
        pairing == use_cesu /\ (leading \div 16 = 3803) /\ UGe(limit - b.count, 3)
        pair == three /\ byte <= \hEF /\ leading >= \hE0A0 /\ surrogate /\ pairing
                /\ IsCont(At(m, index - 1)) /\ IsHiNibbleA(At(m, index - 2))
                /\ At(m, index - 3) = \hED
        bytes == IF byte <= \h7F THEN 1
                 ELSE IF ~two THEN 0
                 ELSE IF byte <= \hDF
                 THEN (IF leading >= \hC280 \/ (use_java /\ leading = \hC080) THEN 2 ELSE 0)
                 ELSE IF ~three THEN 0
                 ELSE IF byte <= \hEF
                 THEN IF leading >= \hE0A0
                      THEN (IF ~surrogate THEN 3 ELSE IF pair THEN 6 ELSE 0)
                      ELSE 0
                 ELSE IF ~four THEN 0
                 ELSE IF leading >= \hF090 /\ leading <= \hF48F THEN 4 ELSE 0
        grown == IF bytes = 6 THEN 3 ELSE 0
        pairRd == IF three /\ byte <= \hEF /\ leading >= \hE0A0 /\ surrogate /\ pairing
                  THEN {index - 1, index - 2, index - 3} ELSE {}
    IN  [bytes |-> bytes, extra |-> (b.count + grown) - bytes,
         rd |-> {offset - k : k \in 1..b.count} \cup pairRd]

\* backSeqUTF8st after its backward loop b
BackScannedSt(m, offset, limit, use_cesu, use_java, b) ==
    IF b.count = 0
    THEN [bytes |-> 0, extra |-> b.n, rd |-> {offset - k : k \in 1..b.n}]
    ELSE BackFoundSt(m, offset, limit, use_cesu, use_java, b, offset - b.count,
                     At(m, offset - b.count),
                     At(m, offset - b.count) * 256 + At(m, (offset - b.count) + 1))

backSeqUTF8st(m, offset, limit, use_cesu, use_java) ==
    BackScannedSt(m, offset, limit, use_cesu, use_java, BackLead(m, offset, limit, \hF7))

\* ------------------------------------------------------------------------
\* low level code-point skipping functions
\* ------------------------------------------------------------------------

\* an index outside the modelled memory
Outside(m, i) == i < 0 \/ i >= Len(m)

\* a call that loaded a byte outside the modelled memory has no defined result
Faulted(m, rd) == \E i \in rd : Outside(m, i)

\* a skipper that fails its pre-flight test, or is asked for 0 code points
NoSkip(t) == [points |-> 0, offset |-> t.offset, rd |-> {}]

\* the byte test of the coalescing BYTE and CP1252 skippers
Good(kind, byte) ==
    CASE kind = "ascii"    -> byte < \h80
      [] kind = "cp1252"   -> cp1252ToUnicode(byte, FALSE).ok
      [] kind = "cp1252st" -> cp1252ToUnicode(byte, TRUE).ok

RECURSIVE ByteLoop(_, _, _, _, _, _, _, _, _)
\* while ((points < count) && (limit > 0)) of stepBYTE / stepCP1252 (fwd) and
\* backBYTE / backCP1252 (~fwd); `at` is the index `buffer` points to
ByteLoop(m, kind, fwd, count, points, limit, at, flag, rd) ==
    IF ~(ULt(points, count) /\ limit # 0)
    THEN [points |-> points, limit |-> limit, rd |-> rd]
    ELSE LET pos == IF fwd THEN at ELSE at - 1
             g == Good(kind, At(m, pos))
         IN  ByteLoop(m, kind, fwd, count, IF g \/ flag THEN points + 1 ELSE points,
                      limit - 1, IF fwd THEN at + 1 ELSE at - 1, g, rd \cup {pos})

\* points = ((count <= limit) ? count : limit)
MinU(count, limit) == IF ULe(count, limit) THEN count ELSE limit

stepBYTE(m, t, count, use_ascii, coalesce) ==
    IF count = 0 \/ ~no_error(get_errors(t)) THEN NoSkip(t)
    ELSE IF use_ascii /\ coalesce
    THEN LET r == ByteLoop(m, "ascii", TRUE, count, 0, t.length - t.offset, t.offset,
                           TRUE, {})
         IN  [points |-> r.points, offset |-> t.length - r.limit, rd |-> r.rd]
    ELSE LET points == MinU(count, t.length - t.offset)
         IN  [points |-> points, offset |-> t.offset + points, rd |-> {}]

backBYTE(m, t, count, use_ascii, coalesce) ==
    IF count = 0 \/ ~no_error(get_errors(t)) THEN NoSkip(t)
    ELSE IF use_ascii /\ coalesce
    THEN LET r == ByteLoop(m, "ascii", FALSE, count, 0, t.offset, t.offset, TRUE, {})
         IN  [points |-> r.points, offset |-> r.limit, rd |-> r.rd]
    ELSE LET points == MinU(count, t.offset)
         IN  [points |-> points, offset |-> t.offset - points, rd |-> {}]

stepCP1252(m, t, count, strict, coalesce) ==
    IF count = 0 \/ ~no_error(get_errors(t)) THEN NoSkip(t)
    ELSE IF coalesce
    THEN LET r == ByteLoop(m, IF strict THEN "cp1252st" ELSE "cp1252", TRUE, count, 0,
                           t.length - t.offset, t.offset, TRUE, {})
         IN  [points |-> r.points, offset |-> t.length - r.limit, rd |-> r.rd]
    ELSE LET points == MinU(count, t.length - t.offset)
         IN  [points |-> points, offset |-> t.offset + points, rd |-> {}]

backCP1252(m, t, count, strict, coalesce) ==
    IF count = 0 \/ ~no_error(get_errors(t)) THEN NoSkip(t)
    ELSE IF coalesce
    THEN LET r == ByteLoop(m, IF strict THEN "cp1252st" ELSE "cp1252", FALSE, count, 0,
                           t.offset, t.offset, TRUE, {})
         IN  [points |-> r.points, offset |-> r.limit, rd |-> r.rd]
    ELSE LET points == MinU(count, t.offset)
         IN  [points |-> points, offset |-> t.offset - points, rd |-> {}]

RECURSIVE UnitLoop(_, _, _, _, _, _, _, _, _, _)
\* while ((points < count) && (limit >= size)) of stepUTF16 / stepUTF32 (fwd)
\* and backUTF16 / backUTF32 (~fwd); size is 2 or 4
UnitLoop(m, size, le, fwd, count, points, limit, at, pairing, rd) ==
    IF ~(ULt(points, count) /\ UGe(limit, size))
    THEN [points |-> points, limit |-> limit, rd |-> rd]
    ELSE LET pos == IF fwd THEN at ELSE at - size
             unicode == IF size = 2 THEN Get16(m, pos, 0, le) ELSE Get32(m, pos, 0, le)
             opens == IsSurrogate(unicode)
                      /\ (IF fwd THEN ~IsLowHalf(unicode) ELSE IsLowHalf(unicode))
             closes == IsSurrogate(unicode) /\ ~opens /\ pairing
         IN  UnitLoop(m, size, le, fwd, count, IF closes THEN points ELSE points + 1,
                      limit - size, IF fwd THEN at + size ELSE at - size, opens,
                      rd \cup {pos + k : k \in 0..(size - 1)})

\* points = (limit >> shift); if (points > count) points = count;
\* limit -= (points << shift) : the limit left
FixedSkip(count, limit, size) ==
    LET all == limit \div size
        points == IF UGt(all, count) THEN count ELSE all
    IN  [points |-> points, limit |-> limit - points * size, rd |-> {}]

stepUTF16(m, t, count, le, use_ucs2) ==
    IF count = 0 \/ ~no_error(get_errors_aligned(t, 1)) THEN NoSkip(t)
    ELSE LET r == IF use_ucs2 THEN FixedSkip(count, t.length - t.offset, 2)
                  ELSE UnitLoop(m, 2, le, TRUE, count, 0, t.length - t.offset, t.offset,
                                FALSE, {})
         IN  [points |-> r.points, offset |-> t.length - r.limit, rd |-> r.rd]

backUTF16(m, t, count, le, use_ucs2) ==
    IF count = 0 \/ ~no_error(get_errors_aligned(t, 1)) THEN NoSkip(t)
    ELSE LET r == IF use_ucs2 THEN FixedSkip(count, t.offset, 2)
                  ELSE UnitLoop(m, 2, le, FALSE, count, 0, t.offset, t.offset, FALSE, {})
         IN  [points |-> r.points, offset |-> r.limit, rd |-> r.rd]

stepUTF32(m, t, count, le, use_cesu) ==
    IF count = 0 \/ ~no_error(get_errors_aligned(t, 3)) THEN NoSkip(t)
    ELSE LET r == IF use_cesu
                  THEN UnitLoop(m, 4, le, TRUE, count, 0, t.length - t.offset, t.offset,
                                FALSE, {})
                  ELSE FixedSkip(count, t.length - t.offset, 4)
         IN  [points |-> r.points, offset |-> t.length - r.limit, rd |-> r.rd]

backUTF32(m, t, count, le, use_cesu) ==
    IF count = 0 \/ ~no_error(get_errors_aligned(t, 3)) THEN NoSkip(t)
    ELSE LET r == IF use_cesu
                  THEN UnitLoop(m, 4, le, FALSE, count, 0, t.offset, t.offset, FALSE, {})
                  ELSE FixedSkip(count, t.offset, 4)
         IN  [points |-> r.points, offset |-> r.limit, rd |-> r.rd]

RECURSIVE StepLoopUTF8(_, _, _, _, _, _, _, _, _, _, _)
\* the else branch of the loop of stepUTF8, q being what the scan returned
StepScanned(m, count, use_cesu, use_java, strict, coalesce, points, offset, limit, rd, q) ==
    IF q.bytes # 0
    THEN StepLoopUTF8(m, count, use_cesu, use_java, strict, coalesce,
                      points + 1, offset + q.bytes, limit - q.bytes, q.extra, rd \cup q.rd)
    ELSE StepLoopUTF8(m, count, use_cesu, use_java, strict, coalesce,
                      points, offset, limit, q.extra, rd \cup q.rd)

\* while ((points < count) && (limit > 0)) of stepUTF8; the loop is left at
\* once when a scan loads a byte outside the modelled memory
StepLoopUTF8(m, count, use_cesu, use_java, strict, coalesce, points, offset, limit, extra, rd) ==
    IF ~(ULt(points, count) /\ limit # 0) \/ Faulted(m, rd)
    THEN [points |-> points, offset |-> offset, rd |-> rd]
    ELSE IF extra # 0
    THEN IF coalesce /\ ~strict
         THEN StepLoopUTF8(m, count, use_cesu, use_java, strict, coalesce,
                           points + 1, offset + extra, limit - extra, 0, rd)
         ELSE IF UGt(points + extra, count)
         THEN StepLoopUTF8(m, count, use_cesu, use_java, strict, coalesce,
                           count, (offset + extra) - ((points + extra) - count),
                           limit - extra, 0, rd)
         ELSE StepLoopUTF8(m, count, use_cesu, use_java, strict, coalesce,
                           points + extra, offset + extra, limit - extra, 0, rd)
    ELSE StepScanned(m, count, use_cesu, use_java, strict, coalesce, points, offset, limit,
                     rd,
                     IF strict THEN stepSeqUTF8st(m, offset, limit, use_cesu, use_java)
                     ELSE stepSeqUTF8(m, offset, limit, use_cesu))

stepUTF8(m, t, count, use_cesu, use_java, strict, coalesce) ==
    IF count = 0 \/ ~no_error(get_errors(t)) THEN NoSkip(t)
    ELSE StepLoopUTF8(m, count, use_cesu, use_java, strict, coalesce,
                      0, t.offset, t.length - t.offset, 0, {})

RECURSIVE BackLoopUTF8(_, _, _, _, _, _, _, _, _, _, _)
\* the else branch of the loop of backUTF8, q being what the scan returned
BackScannedLoop(m, count, use_cesu, use_java, strict, coalesce, points, offset, limit, rd, q) ==
    IF q.extra = 0
    THEN BackLoopUTF8(m, count, use_cesu, use_java, strict, coalesce,
                      points, offset, limit, q.bytes, rd \cup q.rd)
    ELSE IF coalesce /\ ~strict
    THEN BackLoopUTF8(m, count, use_cesu, use_java, strict, coalesce,
                      points + 1, offset - q.extra, limit - q.extra, q.bytes,
                      rd \cup q.rd)
    ELSE IF UGt(points + q.extra, count)
    THEN BackLoopUTF8(m, count, use_cesu, use_java, strict, coalesce,
                      count, (offset - q.extra) + ((points + q.extra) - count),
                      limit - q.extra, q.bytes, rd \cup q.rd)
    ELSE BackLoopUTF8(m, count, use_cesu, use_java, strict, coalesce,
                      points + q.extra, offset - q.extra, limit - q.extra, q.bytes,
                      rd \cup q.rd)

\* while ((points < count) && (limit > 0)) of backUTF8
BackLoopUTF8(m, count, use_cesu, use_java, strict, coalesce, points, offset, limit, bytes, rd) ==
    IF ~(ULt(points, count) /\ limit # 0) \/ Faulted(m, rd)
    THEN [points |-> points, offset |-> offset, rd |-> rd]
    ELSE IF bytes # 0
    THEN BackLoopUTF8(m, count, use_cesu, use_java, strict, coalesce,
                      points + 1, offset - bytes, limit - bytes, 0, rd)
    ELSE BackScannedLoop(m, count, use_cesu, use_java, strict, coalesce, points, offset,
                         limit, rd,
                         IF strict THEN backSeqUTF8st(m, offset, limit, use_cesu, use_java)
                         ELSE backSeqUTF8(m, offset, limit, use_cesu))

backUTF8(m, t, count, use_cesu, use_java, strict, coalesce) ==
    IF count = 0 \/ ~no_error(get_errors(t)) THEN NoSkip(t)
    ELSE BackLoopUTF8(m, count, use_cesu, use_java, strict, coalesce,
                      0, t.offset, t.offset, 0, {})

\* ------------------------------------------------------------------------
\* handler classes (one per UTF_SUB_TYPE)
\* ------------------------------------------------------------------------

\* a UTF-8 family handler: the arguments of its get/set/len calls, and the
\* three booleans its back/step calls pass, in the order they are passed
HUtf8(cesu, java, strict, coalesce, s1, s2, s3) ==
    [fam |-> "UTF8", use_cesu |-> cesu, use_java |-> java, strict |-> strict,
     coalesce |-> coalesce, skip |-> <<s1, s2, s3>>]

HUtf16(le, ucs2) == [fam |-> "UTF16", le |-> le, use_ucs2 |-> ucs2]

\* a UTF-32 family handler; s1, s2 are the booleans its back/step calls pass
HUtf32(le, cesu, ucs4, s1, s2) ==
    [fam |-> "UTF32", le |-> le, use_cesu |-> cesu, use_ucs4 |-> ucs4, skip |-> <<s1, s2>>]

HByte(ascii, coalesce) == [fam |-> "BYTE", use_ascii |-> ascii, coalesce |-> coalesce]

HCp1252(strict, coalesce) == [fam |-> "CP1252", strict |-> strict, coalesce |-> coalesce]

Tags ==
    { "UTF8", "UTF8ns", "UTF8st", "JUTF8", "JUTF8ns", "JUTF8st",
      "CESU8", "CESU8ns", "CESU8st", "JCESU8", "JCESU8ns", "JCESU8st",
      "UTF16le", "UTF16be", "UCS2le", "UCS2be",
      "UTF32le", "UTF32be", "UCS4le", "UCS4be",
      "CESU32le", "CESU32be", "CESU4le", "CESU4be",
      "BYTE", "BYTEns", "ASCII", "ASCIIns", "CP1252", "CP1252ns", "CP1252st" }

Handlers ==
    [tag \in Tags |->
        CASE tag = "UTF8"     -> HUtf8(FALSE, FALSE, FALSE, TRUE, FALSE, FALSE, TRUE)
          [] tag = "UTF8ns"   -> HUtf8(FALSE, FALSE, FALSE, FALSE, FALSE, FALSE, FALSE)
          [] tag = "UTF8st"   -> HUtf8(FALSE, FALSE, TRUE, FALSE, FALSE, TRUE, FALSE)
          [] tag = "JUTF8"    -> HUtf8(FALSE, TRUE, FALSE, TRUE, FALSE, FALSE, TRUE)
          [] tag = "JUTF8ns"  -> HUtf8(FALSE, TRUE, FALSE, FALSE, FALSE, FALSE, FALSE)
          [] tag = "JUTF8st"  -> HUtf8(FALSE, TRUE, TRUE, FALSE, FALSE, TRUE, FALSE)
          [] tag = "CESU8"    -> HUtf8(TRUE, FALSE, FALSE, TRUE, TRUE, FALSE, TRUE)
          [] tag = "CESU8ns"  -> HUtf8(TRUE, FALSE, FALSE, FALSE, TRUE, FALSE, FALSE)
          [] tag = "CESU8st"  -> HUtf8(TRUE, FALSE, TRUE, FALSE, TRUE, TRUE, FALSE)
          [] tag = "JCESU8"   -> HUtf8(TRUE, TRUE, FALSE, TRUE, TRUE, FALSE, TRUE)
          [] tag = "JCESU8ns" -> HUtf8(TRUE, TRUE, FALSE, FALSE, TRUE, FALSE, FALSE)
          [] tag = "JCESU8st" -> HUtf8(TRUE, TRUE, TRUE, FALSE, TRUE, TRUE, FALSE)
          [] tag = "UTF16le"  -> HUtf16(TRUE, FALSE)
          [] tag = "UTF16be"  -> HUtf16(FALSE, FALSE)
          [] tag = "UCS2le"   -> HUtf16(TRUE, TRUE)
          [] tag = "UCS2be"   -> HUtf16(FALSE, TRUE)
          [] tag = "UTF32le"  -> HUtf32(TRUE, FALSE, FALSE, TRUE, FALSE)
          [] tag = "UTF32be"  -> HUtf32(FALSE, FALSE, FALSE, FALSE, FALSE)
          [] tag = "UCS4le"   -> HUtf32(TRUE, FALSE, TRUE, TRUE, FALSE)
          [] tag = "UCS4be"   -> HUtf32(FALSE, FALSE, TRUE, FALSE, FALSE)
          [] tag = "CESU32le" -> HUtf32(TRUE, TRUE, FALSE, TRUE, TRUE)
          [] tag = "CESU32be" -> HUtf32(FALSE, TRUE, FALSE, FALSE, TRUE)
          [] tag = "CESU4le"  -> HUtf32(TRUE, TRUE, TRUE, TRUE, TRUE)
          [] tag = "CESU4be"  -> HUtf32(FALSE, TRUE, TRUE, FALSE, TRUE)
          [] tag = "BYTE"     -> HByte(FALSE, TRUE)
          [] tag = "BYTEns"   -> HByte(FALSE, FALSE)
          [] tag = "ASCII"    -> HByte(TRUE, TRUE)
          [] tag = "ASCIIns"  -> HByte(TRUE, FALSE)
          [] tag = "CP1252"   -> HCp1252(FALSE, TRUE)
          [] tag = "CP1252ns" -> HCp1252(FALSE, FALSE)
          [] tag = "CP1252st" -> HCp1252(TRUE, FALSE)]

\* IUTF::len
len(tag, unicode) ==
    LET h == Handlers[tag]
    IN  CASE h.fam = "UTF8"   -> lenUTF8(unicode, h.use_cesu, h.use_java)
          [] h.fam = "UTF16"  -> lenUTF16(unicode, h.use_ucs2)
          [] h.fam = "UTF32"  -> lenUTF32(unicode, h.use_cesu, h.use_ucs4)
          [] h.fam = "BYTE"   -> IF h.use_ascii THEN lenASCII(unicode) ELSE lenBYTE(unicode)
          [] h.fam = "CP1252" -> lenASCII(unicode)

\* IUTF::get
get(tag, m, t) ==
    LET h == Handlers[tag]
    IN  CASE h.fam = "UTF8"   -> decodeUTF8(m, t, h.use_cesu, h.use_java, h.strict, h.coalesce)
          [] h.fam = "UTF16"  -> decodeUTF16(m, t, h.le, h.use_ucs2)
          [] h.fam = "UTF32"  -> decodeUTF32(m, t, h.le, h.use_cesu, h.use_ucs4)
          [] h.fam = "BYTE"   -> decodeBYTE(m, t, h.use_ascii, h.coalesce)
          [] h.fam = "CP1252" -> decodeCP1252(m, t, h.strict, h.coalesce)

\* IUTF::set
set(tag, t, unicode) ==
    LET h == Handlers[tag]
    IN  CASE h.fam = "UTF8"   -> encodeUTF8(t, unicode, h.use_cesu, h.use_java)
          [] h.fam = "UTF16"  -> encodeUTF16(t, unicode, h.le, h.use_ucs2)
          [] h.fam = "UTF32"  -> encodeUTF32(t, unicode, h.le, h.use_cesu, h.use_ucs4)
          [] h.fam = "BYTE"   -> encodeBYTE(t, unicode, h.use_ascii)
          [] h.fam = "CP1252" -> encodeCP1252(t, unicode, h.strict)

\* memory after the bytes `out` are stored at C index `at`
Store(m, at, out) ==
    [i \in 1..Len(m) |-> IF i > at /\ i <= at + Len(out) THEN out[i - at] ELSE m[i]]

\* ------------------------------------------------------------------------
\* BOM and NULL encoders
\* ------------------------------------------------------------------------

\* the common body of the BOM and NULL encoders: pre-flight errors, then the
\* overflow test on limit, then the store
PutMark(errors, t, out) ==
    IF no_error(errors) THEN Put(errors, t.length - t.offset, out) ELSE NoPut(errors)

encodeUTF8_BOM(t) == PutMark(get_errors(t), t, <<\hEF, \hBB, \hBF>>)

encodeUTF16_BOM(t, le) ==
    PutMark(get_errors_aligned(t, 1), t, IF le THEN <<\hFF, \hFE>> ELSE <<\hFE, \hFF>>)

encodeUTF32_BOM(t, le) ==
    PutMark(get_errors_aligned(t, 3), t,
            IF le THEN <<\hFF, \hFE, 0, 0>> ELSE <<0, 0, \hFE, \hFF>>)

encodeUTF8_NULL(t) == PutMark(get_errors(t), t, <<0>>)

encodeUTF16_NULL(t) == PutMark(get_errors_aligned(t, 1), t, <<0, 0>>)

encodeUTF32_NULL(t) == PutMark(get_errors_aligned(t, 3), t, <<0, 0, 0, 0>>)

\* IUTF::setBOM
setBOM(tag, t) ==
    LET h == Handlers[tag]
    IN  CASE h.fam = "UTF8"   -> encodeUTF8_BOM(t)
          [] h.fam = "UTF16"  -> encodeUTF16_BOM(t, h.le)
          [] h.fam = "UTF32"  -> encodeUTF32_BOM(t, h.le)
          [] h.fam = "BYTE"   -> encodeUTF8_BOM(t)
          [] h.fam = "CP1252" -> NoPut({})

\* IUTF::setNull
setNull(tag, t) ==
    LET h == Handlers[tag]
    IN  CASE h.fam = "UTF16"  -> encodeUTF16_NULL(t)
          [] h.fam = "UTF32"  -> encodeUTF32_NULL(t)
          [] OTHER            -> encodeUTF8_NULL(t)

\* IUTF::step
step(tag, m, t, count) ==
    LET h == Handlers[tag]
    IN  CASE h.fam = "UTF8"   -> stepUTF8(m, t, count, h.skip[1], h.skip[2], h.skip[3], TRUE)
          [] h.fam = "UTF16"  -> stepUTF16(m, t, count, h.le, h.use_ucs2)
          [] h.fam = "UTF32"  -> stepUTF32(m, t, count, h.skip[1], h.skip[2])
          [] h.fam = "BYTE"   -> stepBYTE(m, t, count, h.use_ascii, h.coalesce)
          [] h.fam = "CP1252" -> stepCP1252(m, t, count, h.strict, h.coalesce)

\* IUTF::back
back(tag, m, t, count) ==
    LET h == Handlers[tag]
    IN  CASE h.fam = "UTF8"   -> backUTF8(m, t, count, h.skip[1], h.skip[2], h.skip[3], TRUE)
          [] h.fam = "UTF16"  -> backUTF16(m, t, count, h.le, h.use_ucs2)
          [] h.fam = "UTF32"  -> backUTF32(m, t, count, h.skip[1], h.skip[2])
          [] h.fam = "BYTE"   -> backBYTE(m, t, count, h.use_ascii, h.coalesce)
          [] h.fam = "CP1252" -> backCP1252(m, t, count, h.strict, h.coalesce)

\* ------------------------------------------------------------------------
\* IUTFTK: the cursor operations built on get and set
\* ------------------------------------------------------------------------

\* text with its offset moved on by bytes
Advance(t, bytes) == [t EXCEPT !.offset = t.offset + bytes]

\* pairing ^ 0x0007u
Xor7(pairing) == (pairing - (pairing % 8)) + (7 - (pairing % 8))

\* a getNLF that never joins the scalar behind a line-feed or carriage return
PairNLFAlone(t, r, check) ==
    [errors |-> r.errors, unicode |-> \h0A, bytes |-> r.bytes,
     reads |-> Max(r.reads, r.bytes + check.reads)]

\* getNLF on a line-feed or carriage return r, check being the get() at the
\* offset behind it
PairNLF(t, r, check) ==
    IF no_error(get_errors(t)) /\ r.unicode = Xor7(check.unicode)
    THEN [errors |-> r.errors \cup check.errors, unicode |-> \h0A,
          bytes |-> r.bytes + check.bytes, reads |-> Max(r.reads, r.bytes + check.reads)]
    ELSE [errors |-> r.errors, unicode |-> \h0A, bytes |-> r.bytes,
          reads |-> Max(r.reads, r.bytes + check.reads)]

\* getNLF after its get() returned r
GotNLF(tag, m, t, r) ==
    IF ~no_error(r.errors) THEN r
    ELSE IF r.unicode \in {\h0A, \h0D}
    THEN PairNLF(t, r, get(tag, m, Advance(t, r.bytes)))
    ELSE IF r.unicode \in {\h0B, \h0C, \h85, \h2028, \h2029}
    THEN [r EXCEPT !.unicode = \h0A]
    ELSE r

\* IUTFTK::getNLF
getNLF(tag, m, t) == GotNLF(tag, m, t, get(tag, m, t))

RECURSIVE LineLoop(_, _, _, _)
\* the body of the while loop of getLine, r being what getNLF returned
LineGot(tag, m, scan, errors, r) ==
    IF ~no_error(errors \cup r.errors)
    THEN [errors |-> errors \cup r.errors, bytes |-> r.bytes, length |-> 0,
          buffer |-> "nullptr"]
    ELSE IF r.unicode = \h0A \/ r.unicode = 0
    THEN [errors |-> errors \cup r.errors, bytes |-> r.bytes + scan.offset,
          length |-> scan.offset, buffer |-> scan.buffer]
    ELSE LineLoop(tag, m, Advance(scan, r.bytes), errors \cup r.errors)

\* the while loop of getLine over scan, a cursor on the rest of text
LineLoop(tag, m, scan, errors) == LineGot(tag, m, scan, errors, getNLF(tag, m, scan))

\* memory as seen through &text.buffer[text.offset]
From(m, offset) == SubSeq(m, offset + 1, Len(m))

\* IUTFTK::getLine: the diagnostic, the bytes readLine moves on by, and the
\* length and the buffer of the line; a line buffer that is not null is
\* &text.buffer[text.offset]
getLine(tag, m, t) ==
    IF ~no_error(get_errors(t))
    THEN [errors |-> get_errors(t), bytes |-> 0, length |-> 0, buffer |-> "nullptr"]
    ELSE LineLoop(tag, From(m, t.offset),
                  [buffer |-> t.buffer, length |-> t.length - t.offset, offset |-> 0],
                  get_errors(t))

\* ------------------------------------------------------------------------
\* Specification SpecCodec: one handler encodes one scalar into a cleared
\* buffer with set(), then decodes it at the same offset with get()
\* ------------------------------------------------------------------------

\* the buffer holds 4 * Words bytes
Words == 3

\* every scalar 0..MaxDense is tried
MaxDense == 300

\* scalars at the edges of the encoders' branches, including values above
\* 0x10FFFF and values with the high bit set
Boundary ==
    { \h7FF, \h800, \h2013, \h20AC, \h2122, \hD7FF, \hD800, \hDBFF, \hDC00, \hDFFF,
      \hE000, \hFDCF, \hFDD0, \hFDEF, \hFDF0, \hFFFD, \hFFFE, \hFFFF,
      \h10000, \h103FF, \h10400, \h1F600, \h1FFFE, \hFFFFF, \h100000, \h10FFFF,
      \h110000, \h1FFFFF, \h200000, \h3FFFFFF, \h4000000, \h7FFFFFFF,
      -1, -128, -2147483647 }

Scalars == (0..MaxDense) \cup Boundary

InitCodec ==
    /\ cfg \in [tag : Tags, unicode : Scalars]
    /\ mem = [i \in 1..(4 * Words) |-> 0]
    /\ text \in [buffer : {"buf"}, length : {4 * Words}, offset : {0, 4}]
    /\ pc = "start"
    /\ last = [op |-> "none"]

\* handler.set(text, unicode, bytes), with handler.len(unicode) noted beside it
HandlerSet ==
    /\ pc = "start"
    /\ LET r == set(cfg.tag, text, cfg.unicode)
       IN  /\ mem' = Store(mem, text.offset, r.out)
           /\ last' = [op |-> "set", errors |-> r.errors, bytes |-> r.bytes,
                       len |-> len(cfg.tag, cfg.unicode)]
    /\ pc' = "encoded"
    /\ UNCHANGED <<text, cfg>>

\* handler.get(text, unicode, bytes) on what set() left in the buffer
HandlerGet ==
    /\ pc = "encoded"
    /\ LET r == get(cfg.tag, mem, text)
       IN  last' = [op |-> "get", errors |-> r.errors, bytes |-> r.bytes,
                    unicode |-> r.unicode, encoded |-> last]
    /\ pc' = "decoded"
    /\ UNCHANGED <<mem, text, cfg>>

NextCodec == HandlerSet \/ HandlerGet

SpecCodec == InitCodec /\ [][NextCodec]_vars

\* C1: for every tag and every valid scalar (0..0x10FFFF, not a surrogate)
\* that the tag's encoder accepts without a hard error, decoding the bytes
\* just written at the same offset with the same tag returns that scalar,
\* the byte count the encoder reported, and no hard-error bit.
RoundTrip ==
    (/\ pc = "decoded"
     /\ cfg.unicode >= 0 /\ cfg.unicode <= \h10FFFF /\ ~IsSurrogate(cfg.unicode)
     /\ no_error(last.encoded.errors))
    => (/\ last.unicode = cfg.unicode
        /\ last.bytes = last.encoded.bytes
        /\ last.bytes > 0
        /\ no_error(last.errors))

\* a supplementary scalar written as a CESU surrogate pair and read back by
\* the strict CESU-8 handler
RoundTripWitness ==
    /\ pc = "decoded"
    /\ cfg.tag = "CESU8st" /\ cfg.unicode = \h1F600
    /\ no_error(last.encoded.errors)
    /\ last.encoded.bytes = 6
    /\ last.unicode = \h1F600

\* C6: for every tag and every 32-bit scalar, a non-zero length is the byte
\* count the encoder reports when it has room, and the encoder returns
\* NotEncodable exactly when the length is 0.
LenMatchesEncoder ==
    pc = "encoded" =>
        (/\ (last.len # 0 => last.bytes = last.len)
         /\ (("NotEncodable" \in last.errors) <=> (last.len = 0)))

\* ------------------------------------------------------------------------
\* Specification SpecBits: a cp_errors value under |=, clear and
\* set_byte_index
\* ------------------------------------------------------------------------

\* the flags the diagnostic is driven with
FlagBits == {"Failed", "NotDecodable", "ReadExhausted", "UnexpectedByte"}

\* set_byte_index takes a uint32_t: indices 0..MaxIndex are tried
MaxIndex == 9

InitBits ==
    /\ cfg = [tag |-> "none"]
    /\ mem = <<>>
    /\ text = [buffer |-> "nullptr", length |-> 0, offset |-> 0]
    /\ pc = "flags"
    /\ last = [op |-> "cp_errors", errors |-> {}]

\* errors |= bit
OrBit ==
    /\ pc = "flags"
    /\ \E bit \in FlagBits :
         last' = [op |-> "or", errors |-> last.errors \cup {bit}]
    /\ UNCHANGED <<mem, text, cfg, pc>>

\* errors.clear(bit)
ClearBit ==
    /\ pc = "flags"
    /\ \E bit \in FlagBits :
         last' = [op |-> "clear", errors |-> last.errors \ {bit}]
    /\ UNCHANGED <<mem, text, cfg, pc>>

\* errors.set_byte_index(index)
SetByteIndex ==
    /\ pc = "flags"
    /\ \E index \in 0..MaxIndex :
         last' = [op |-> "set_byte_index", errors |-> set_byte_index(last.errors, index),
                  index |-> index, before |-> last.errors]
    /\ UNCHANGED <<mem, text, cfg, pc>>

NextBits == OrBit \/ ClearBit \/ SetByteIndex

SpecBits == InitBits /\ [][NextBits]_vars

\* C10: any() is true exactly when some bit other than the three low
\* byte-index bits is set (so a diagnostic carrying only a byte index 1..7
\* reports false), and set_byte_index(i) then get_byte_index() returns i for
\* i in 0..7 and leaves every flag bit as it was.
AnyIgnoresByteIndex ==
    pc = "flags" =>
        (/\ any(last.errors) <=> ((last.errors \ ByteIndexMask) # {})
         /\ (last.op = "set_byte_index" /\ last.index <= 7) =>
               (/\ get_byte_index(last.errors) = last.index
                /\ last.errors \ ByteIndexMask = last.before \ ByteIndexMask))

\* ------------------------------------------------------------------------
\* Specification SpecSkip: one free skipper or decoder call, with any flags,
\* on a cursor over a buffer of encoded pieces; a step may be followed by a
\* back for the same count
\* ------------------------------------------------------------------------

\* at most MaxSeqs UTF-8 sequences, or MaxUnits units of the other
\* encodings, in a buffer
MaxSeqs == 2

MaxUnits == 3

\* the skippers are asked for 1..MaxCount code points
MaxCount == 2

\* the values the byte that lies behind the buffer is tried with
Behind == {0, \h80}

\* UTF-8 sequences: ASCII, a lone continuation byte, a lone lead byte, a
\* 2-byte sequence, an overlong NUL, a high and a low surrogate, a 4-byte
\* sequence and an invalid byte
SeqsUTF8 ==
    { <<\h41>>, <<\h80>>, <<\hC3>>, <<\hC3, \hA9>>, <<\hC0, \h80>>,
      <<\hED, \hA0, \h80>>, <<\hED, \hB0, \h80>>, <<\hF0, \h9F, \h98, \h80>>, <<\hFE>> }

\* 16 and 32 bit units: a letter, a high and a low surrogate
Units == {\h41, \hD800, \hDC00}

\* single bytes: ASCII, a CP1252 mapped byte, a CP1252 undefined byte
Bytes == {<<\h41>>, <<\h80>>, <<\h81>>}

Pieces(fam, le) ==
    CASE fam = "UTF8"  -> SeqsUTF8
      [] fam = "UTF16" -> {Unit16(u, le) : u \in Units}
      [] fam = "UTF32" -> {Unit32(u, le) : u \in Units}
      [] OTHER         -> Bytes

RECURSIVE Joined(_, _)
\* the buffers of at most k pieces of S
Joined(S, k) ==
    IF k = 0 THEN {<<>>}
    ELSE Joined(S, k - 1) \cup {a \o b : a \in S, b \in Joined(S, k - 1)}

\* the flags of a free call; a family leaves the flags it does not take FALSE
Flags(fam, use_cesu, use_java, strict, coalesce, le, use_ucs2, use_ascii) ==
    [fam |-> fam, use_cesu |-> use_cesu, use_java |-> use_java, strict |-> strict,
     coalesce |-> coalesce, le |-> le, use_ucs2 |-> use_ucs2, use_ascii |-> use_ascii]

SkipFlags ==
    {Flags("UTF8", c, j, s, k, FALSE, FALSE, FALSE) : c, j, s, k \in BOOLEAN} \cup
    {Flags("UTF16", FALSE, FALSE, FALSE, FALSE, l, u, FALSE) : l, u \in BOOLEAN} \cup
    {Flags("UTF32", c, FALSE, FALSE, FALSE, l, FALSE, FALSE) : c, l \in BOOLEAN} \cup
    {Flags("BYTE", FALSE, FALSE, FALSE, k, FALSE, FALSE, a) : k, a \in BOOLEAN} \cup
    {Flags("CP1252", FALSE, FALSE, s, k, FALSE, FALSE, FALSE) : s, k \in BOOLEAN}

\* the free step function of the family, with the call's flags
stepBy(c, m, t, count) ==
    CASE c.fam = "UTF8"   -> stepUTF8(m, t, count, c.use_cesu, c.use_java, c.strict, c.coalesce)
      [] c.fam = "UTF16"  -> stepUTF16(m, t, count, c.le, c.use_ucs2)
      [] c.fam = "UTF32"  -> stepUTF32(m, t, count, c.le, c.use_cesu)
      [] c.fam = "BYTE"   -> stepBYTE(m, t, count, c.use_ascii, c.coalesce)
      [] c.fam = "CP1252" -> stepCP1252(m, t, count, c.strict, c.coalesce)

\* the free back function of the family, with the call's flags
backBy(c, m, t, count) ==
    CASE c.fam = "UTF8"   -> backUTF8(m, t, count, c.use_cesu, c.use_java, c.strict, c.coalesce)
      [] c.fam = "UTF16"  -> backUTF16(m, t, count, c.le, c.use_ucs2)
      [] c.fam = "UTF32"  -> backUTF32(m, t, count, c.le, c.use_cesu)
      [] c.fam = "BYTE"   -> backBYTE(m, t, count, c.use_ascii, c.coalesce)
      [] c.fam = "CP1252" -> backCP1252(m, t, count, c.strict, c.coalesce)

\* the free decode function of the family, with the call's flags
decodeBy(c, m, t) ==
    CASE c.fam = "UTF8"   -> decodeUTF8(m, t, c.use_cesu, c.use_java, c.strict, c.coalesce)
      [] c.fam = "UTF16"  -> decodeUTF16(m, t, c.le, c.use_ucs2)
      [] c.fam = "UTF32"  -> decodeUTF32(m, t, c.le, c.use_cesu, FALSE)
      [] c.fam = "BYTE"   -> decodeBYTE(m, t, c.use_ascii, c.coalesce)
      [] c.fam = "CP1252" -> decodeCP1252(m, t, c.strict, c.coalesce)

InitSkip ==
    /\ \E f \in SkipFlags, n \in 1..MaxCount :
         cfg = [flags |-> f, count |-> n]
    /\ \E b \in Joined(Pieces(cfg.flags.fam, cfg.flags.le),
                       IF cfg.flags.fam = "UTF8" THEN MaxSeqs ELSE MaxUnits),
          s \in Behind :
         /\ mem = b \o <<s>>
         /\ text \in [buffer : {"buf"}, length : {Len(b)}, offset : 0..Len(b)]
    /\ pc = "start"
    /\ last = [op |-> "none"]

\* step(text, count)
SkipStep ==
    /\ pc = "start"
    /\ LET r == stepBy(cfg.flags, mem, text, cfg.count)
       IN  /\ text' = [text EXCEPT !.offset = r.offset]
           /\ last' = [op |-> "step", from |-> text.offset, points |-> r.points,
                       rd |-> r.rd]
    /\ pc' = "stepped"
    /\ UNCHANGED <<mem, cfg>>

\* back(text, count) straight after the step
SkipBack ==
    /\ pc = "stepped"
    /\ LET r == backBy(cfg.flags, mem, text, cfg.count)
       IN  /\ text' = [text EXCEPT !.offset = r.offset]
           /\ last' = [op |-> "back", from |-> last.from, stepped |-> last.points,
                       points |-> r.points, rd |-> r.rd]
    /\ pc' = "backed"
    /\ UNCHANGED <<mem, cfg>>

\* decode(text, unicode, bytes)
SkipDecode ==
    /\ pc = "start"
    /\ LET r == decodeBy(cfg.flags, mem, text)
       IN  last' = [op |-> "decode", errors |-> r.errors, unicode |-> r.unicode,
                    bytes |-> r.bytes, reads |-> r.reads]
    /\ pc' = "decoded"
    /\ UNCHANGED <<mem, text, cfg>>

NextSkip == SkipStep \/ SkipBack \/ SkipDecode

SpecSkip == InitSkip /\ [][NextSkip]_vars

RECURSIVE Walk(_, _, _, _, _)
\* n successive decode calls, each followed by offset += bytes: the offset
\* reached and the code points decoded on the way
Walk(c, m, t, n, done) ==
    LET r == decodeBy(c, m, t)
    IN  IF n = 0 \/ r.bytes = 0 THEN [offset |-> t.offset, points |-> done]
        ELSE Walk(c, m, Advance(t, r.bytes), n - 1, done + 1)

RECURSIVE DecoderBoundaries(_, _, _)
\* the offsets the decoder stops at on its way from t.offset to the end
DecoderBoundaries(c, m, t) ==
    LET r == decodeBy(c, m, t)
    IN  IF r.bytes = 0 THEN {t.offset}
        ELSE {t.offset} \cup DecoderBoundaries(c, m, Advance(t, r.bytes))

\* the cursor as it was before the step
Start == [text EXCEPT !.offset = last.from]

\* the step began on a boundary of the decoder with the same flags
OnBoundary ==
    last.from \in DecoderBoundaries(cfg.flags, mem, [text EXCEPT !.offset = 0])

\* the step ended where cfg.count successive decodes end, and returned
\* cfg.count when that many code points were there
StepIsWalk ==
    LET w == Walk(cfg.flags, mem, Start, cfg.count, 0)
    IN  /\ text.offset = w.offset
        /\ w.points = cfg.count => last.points = cfg.count

\* C2: with strict = false and any use_cesu, use_java and coalesce, stepUTF8
\* from a decoder boundary ends at the offset that n successive decodeUTF8
\* calls with the same flags reach, and returns n when n code points exist.
StepWalksDecodeUTF8 ==
    (pc = "stepped" /\ cfg.flags.fam = "UTF8" /\ ~cfg.flags.strict /\ OnBoundary)
    => StepIsWalk

\* C3: with strict = true, stepUTF8 from a decoder boundary at any offset
\* ends at the offset that n successive strict decodeUTF8 calls with the same
\* use_cesu and use_java reach.
StrictStepWalksDecodeUTF8 ==
    (pc = "stepped" /\ cfg.flags.fam = "UTF8" /\ cfg.flags.strict /\ OnBoundary)
    => StepIsWalk

\* C4: stepUTF16 with use_ucs2 = false and stepUTF32 with use_cesu = true end
\* at the offset that n successive decodeUTF16 / decodeUTF32 calls reach, a
\* surrogate pair being consumed whole also when it is the n-th code point.
UnitStepPairsSurrogates ==
    (/\ pc = "stepped"
     /\ \/ cfg.flags.fam = "UTF16" /\ ~cfg.flags.use_ucs2
        \/ cfg.flags.fam = "UTF32" /\ cfg.flags.use_cesu
     /\ OnBoundary)
    => StepIsWalk

\* C5: for every skipper pair with identical flags and every start on a
\* code-point boundary, if step(n) returned n then the back(n) that follows
\* returns n and restores the offset the step began at.
StepThenBackRestores ==
    (pc = "backed" /\ last.stepped = cfg.count /\ OnBoundary)
    => (last.points = cfg.count /\ text.offset = last.from)

\* C7: on a hard decode failure caused by the bytes (no buffer error),
\* decodeUTF8, decodeBYTE in ASCII mode and decodeCP1252 in strict mode, with
\* or without coalescing, return the first byte of the offending sequence as
\* the scalar.
FailureReturnsFirstByte ==
    (/\ pc = "decoded"
     /\ \/ cfg.flags.fam = "UTF8"
        \/ cfg.flags.fam = "BYTE" /\ cfg.flags.use_ascii
        \/ cfg.flags.fam = "CP1252" /\ cfg.flags.strict
     /\ error(last.errors)
     /\ last.errors \cap BufferErrorsMask = {})
    => last.unicode = At(mem, text.offset)

\* C9: every byte a decode, step or back call reads on a cursor that passed
\* the pre-flight checks has an index in [0, length).
ReadsStayInBuffer ==
    /\ pc \in {"stepped", "backed"} => \A i \in last.rd : i >= 0 /\ i < text.length
    /\ pc = "decoded" => text.offset + last.reads <= text.length

\* the offset the back call of a "backed" state began at: where the step
\* before it ended
BackFrom == stepBy(cfg.flags, mem, Start, cfg.count).offset

\* the back call went cfg.count decoder boundaries down from the boundary it
\* began at, or to offset 0 when fewer lie below it
BackIsWalk ==
    LET B == DecoderBoundaries(cfg.flags, mem, [text EXCEPT !.offset = 0])
        below == {b \in B : b < BackFrom}
    IN  BackFrom \in B =>
            /\ text.offset \in B
            /\ Cardinality({b \in below : b >= text.offset}) =
                   (IF Cardinality(below) < cfg.count THEN Cardinality(below) ELSE cfg.count)

\* the coalescing byte-family calls whose decoder can fail: ASCII mode of
\* the BYTE family and strict mode of the CP1252 family
ByteCoalescing ==
    /\ cfg.flags.coalesce
    /\ \/ cfg.flags.fam = "BYTE" /\ cfg.flags.use_ascii
       \/ cfg.flags.fam = "CP1252" /\ cfg.flags.strict

\* C12: stepBYTE in ASCII mode and stepCP1252 in strict mode, both with
\* coalesce = true, asked for n code points stop where n successive decodes
\* with the same flags stop, so a run of undecodable bytes is consumed whole
\* and counted once also when it is the last code point counted; backBYTE
\* and backCP1252 mirror this.
ByteStepCoalescesRuns ==
    /\ (pc = "stepped" /\ ByteCoalescing /\ OnBoundary) => StepIsWalk
    /\ (pc = "backed" /\ ByteCoalescing /\ OnBoundary) => BackIsWalk

\* the bytes of the family that cannot be decoded where they stand: for
\* UTF-8 the bytes that cannot begin a sequence, for ASCII the bytes above
\* 0x7F, for strict CP1252 the five undefined bytes
Undecodable(fam, byte) ==
    CASE fam = "UTF8"   -> (byte >= \h80 /\ byte <= \hBF) \/ byte >= \hFE
      [] fam = "BYTE"   -> byte >= \h80
      [] fam = "CP1252" -> byte \in {\h81, \h8D, \h8F, \h90, \h9D}

\* the index of the first byte after `from` that is decodable, or the
\* buffer's length when there is none
RunEnd(fam, from) ==
    LET hit == {i \in (from + 1)..(text.length - 1) : ~Undecodable(fam, At(mem, i))}
    IN  IF hit = {} THEN text.length ELSE CHOOSE i \in hit : \A j \in hit : i <= j

\* the coalescing decodes: decodeUTF8 non-strict, decodeBYTE in ASCII mode,
\* decodeCP1252 in strict mode
CoalescingDecode ==
    /\ cfg.flags.coalesce
    /\ \/ cfg.flags.fam = "UTF8" /\ ~cfg.flags.strict
       \/ cfg.flags.fam = "BYTE" /\ cfg.flags.use_ascii
       \/ cfg.flags.fam = "CP1252" /\ cfg.flags.strict

\* C14: with coalesce = true, a decodeUTF8 (strict = false) that starts at a
\* continuation byte or at 0xFE/0xFF returns one failed result (Failed,
\* NotDecodable and UnexpectedByte or DisallowedByte) whose byte count runs
\* up to the next byte that can begin a sequence or to the end of the
\* buffer; decodeBYTE in ASCII mode and decodeCP1252 in strict mode coalesce
\* a run of undecodable bytes the same way.
CoalescedRunIsOneFailure ==
    (/\ pc = "decoded"
     /\ CoalescingDecode
     /\ text.offset < text.length
     /\ Undecodable(cfg.flags.fam, At(mem, text.offset)))
    => /\ {"Failed", "NotDecodable"} \subseteq last.errors
       /\ cfg.flags.fam = "UTF8" =>
              (last.errors \cap {"UnexpectedByte", "DisallowedByte"}) # {}
       /\ last.bytes = RunEnd(cfg.flags.fam, text.offset) - text.offset

\* a run of two bytes that cannot begin a sequence, in front of one that can
CoalescedRunWitness ==
    /\ pc = "decoded"
    /\ CoalescingDecode /\ cfg.flags.fam = "UTF8"
    /\ text.offset = 2 /\ text.length = 5
    /\ At(mem, 2) = \h98 /\ At(mem, 3) = \h80 /\ At(mem, 4) = \hC3
    /\ last.bytes = 2

\* ------------------------------------------------------------------------
\* Specification SpecCursor: a handler's cursor under up to MaxCalls calls of
\* read, write, writeBOM, writeNull, readNLF, readLine, step and back
\* ------------------------------------------------------------------------

\* pc counts the calls made, up to MaxCalls
MaxCalls == 2

\* the units of a text: a letter, the two line ends, and a unit that does
\* not stand alone (a continuation byte, a high surrogate)
LineBytes == {<<\h41>>, <<\h0A>>, <<\h0D>>, <<\h80>>}

LineUnits == {\h41, \h0A, \h0D, \hD800}

\* the scalars write() is called with
WriteScalars == {\h41, \h1F600}

\* the buffers a handler's cursor starts on
Texts(tag) ==
    LET h == Handlers[tag]
    IN  Joined(CASE h.fam = "UTF16" -> {Unit16(u, h.le) : u \in LineUnits}
                 [] h.fam = "UTF32" -> {Unit32(u, h.le) : u \in LineUnits}
                 [] OTHER           -> LineBytes,
               MaxSeqs)

InitCursor ==
    /\ cfg \in [tag : Tags]
    /\ \E b \in Texts(cfg.tag), s \in Behind :
         /\ mem = b \o <<s>>
         /\ text \in [buffer : {"buf"}, length : {Len(b)}, offset : 0..Len(b)]
    /\ pc = 0
    /\ last = [op |-> "none"]

\* handler.read(text, unicode)
Read ==
    /\ pc < MaxCalls
    /\ text' = Advance(text, get(cfg.tag, mem, text).bytes)
    /\ last' = [op |-> "read"]
    /\ pc' = pc + 1
    /\ UNCHANGED <<mem, cfg>>

\* what a set, setBOM or setNull that returned r does to the memory and
\* the cursor
Written(r) ==
    /\ mem' = Store(mem, text.offset, r.out)
    /\ text' = Advance(text, r.bytes)

\* handler.write(text, unicode)
Write ==
    /\ pc < MaxCalls
    /\ \E unicode \in WriteScalars : Written(set(cfg.tag, text, unicode))
    /\ last' = [op |-> "write"]
    /\ pc' = pc + 1
    /\ UNCHANGED cfg

\* handler.writeBOM(text)
WriteBOM ==
    /\ pc < MaxCalls
    /\ Written(setBOM(cfg.tag, text))
    /\ last' = [op |-> "writeBOM"]
    /\ pc' = pc + 1
    /\ UNCHANGED cfg

\* handler.writeNull(text)
WriteNull ==
    /\ pc < MaxCalls
    /\ Written(setNull(cfg.tag, text))
    /\ last' = [op |-> "writeNull"]
    /\ pc' = pc + 1
    /\ UNCHANGED cfg

\* handler.readNLF(text, unicode)
ReadNLF ==
    /\ pc < MaxCalls
    /\ text' = Advance(text, getNLF(cfg.tag, mem, text).bytes)
    /\ last' = [op |-> "readNLF"]
    /\ pc' = pc + 1
    /\ UNCHANGED <<mem, cfg>>

\* handler.readLine(text, line)
ReadLine ==
    /\ pc < MaxCalls
    /\ text' = Advance(text, getLine(cfg.tag, mem, text).bytes)
    /\ last' = [op |-> "readLine"]
    /\ pc' = pc + 1
    /\ UNCHANGED <<mem, cfg>>

\* handler.step(text, count)
Step ==
    /\ pc < MaxCalls
    /\ \E count \in 1..MaxCount :
         /\ text' = [text EXCEPT !.offset = step(cfg.tag, mem, text, count).offset]
         /\ last' = [op |-> "step", count |-> count]
    /\ pc' = pc + 1
    /\ UNCHANGED <<mem, cfg>>

\* handler.back(text, count)
Back ==
    /\ pc < MaxCalls
    /\ \E count \in 1..MaxCount :
         /\ text' = [text EXCEPT !.offset = back(cfg.tag, mem, text, count).offset]
         /\ last' = [op |-> "back", count |-> count]
    /\ pc' = pc + 1
    /\ UNCHANGED <<mem, cfg>>

NextCursor ==
    Read \/ Write \/ WriteBOM \/ WriteNull \/ ReadNLF \/ ReadLine \/ Step \/ Back

SpecCursor == InitCursor /\ [][NextCursor]_vars

\* C8: from a cursor with a non-null buffer and offset <= length, after any
\* sequence of read, write, writeBOM, writeNull, readNLF, readLine, step and
\* back calls on a handler, 0 <= offset <= length still holds.
OffsetStaysInBuffer == 0 <= text.offset /\ text.offset <= text.length

\* ------------------------------------------------------------------------
\* Specification SpecLookup: the three getHandler overloads, asked for an
\* enumeration value that may lie outside the enumeration
\* ------------------------------------------------------------------------

\* enum class UTF_TYPE, in value order from 0
TypeNames == << "UTF8", "UTF16le", "UTF16be", "UTF32le", "UTF32be", "OTHER" >>

\* enum class UTF_SUB_TYPE, in value order from 0
SubTypeNames ==
    << "UTF8", "UTF8ns", "UTF8st", "JUTF8", "JUTF8ns", "JUTF8st",
       "CESU8", "CESU8ns", "CESU8st", "JCESU8", "JCESU8ns", "JCESU8st",
       "UTF16le", "UTF16be", "UCS2le", "UCS2be",
       "UTF32le", "UTF32be", "UCS4le", "UCS4be",
       "CESU32le", "CESU32be", "CESU4le", "CESU4be",
       "BYTE", "BYTEns", "ASCII", "ASCIIns", "CP1252", "CP1252ns", "CP1252st" >>

\* utfType() of the handler class CUTF_<tag>
utfType(tag) ==
    LET h == Handlers[tag]
    IN  CASE h.fam = "UTF8"  -> "UTF8"
          [] h.fam = "UTF16" -> IF h.le THEN "UTF16le" ELSE "UTF16be"
          [] h.fam = "UTF32" -> IF h.le THEN "UTF32le" ELSE "UTF32be"
          [] OTHER           -> "OTHER"

\* utfSubType() of the handler class CUTF_<tag>
utfSubType(tag) ==
    CASE tag = "CESU4le" -> "CESU32le"
      [] tag = "CESU4be" -> "CESU32be"
      [] OTHER           -> tag

\* getHandler(UTF_SUB_TYPE): the class of the handler returned; the
\* argument is the enumeration's int32 value
getHandlerSub(utfSubType_) ==
    IF utfSubType_ >= 0 /\ utfSubType_ < Len(SubTypeNames)
    THEN SubTypeNames[utfSubType_ + 1]
    ELSE "JUTF8st"

\* the enumeration value of a sub-type name
SubTypeValue(name) == CHOOSE v \in 0..(Len(SubTypeNames) - 1) : SubTypeNames[v + 1] = name

\* subTypes[UTF_TYPE::COUNT] of getHandler(UTF_TYPE): five initializers for
\* six elements, the sixth is value-initialized to UTF_SUB_TYPE(0)
subTypesOfType ==
    << SubTypeValue("UTF8st"), SubTypeValue("UTF16le"), SubTypeValue("UTF32le"),
       SubTypeValue("UTF32be"), SubTypeValue("JUTF8st"), 0 >>

\* subTypes[UTF_OTHER_TYPE::COUNT] of getHandler(UTF_OTHER_TYPE)
subTypesOfOther ==
    << SubTypeValue("JUTF8st"), SubTypeValue("BYTEns"), SubTypeValue("ASCIIns"),
       SubTypeValue("CP1252st") >>

\* getHandler(UTF_TYPE): index = static_cast<uint32_t>(utfType)
getHandlerType(utfType_) ==
    getHandlerSub(IF ULt(utfType_, Len(TypeNames))
                  THEN subTypesOfType[utfType_ + 1]
                  ELSE SubTypeValue("JUTF8st"))

\* getHandler(UTF_OTHER_TYPE)
getHandlerOther(utfOtherType) ==
    getHandlerSub(IF ULt(utfOtherType, Len(subTypesOfOther))
                  THEN subTypesOfOther[utfOtherType + 1]
                  ELSE SubTypeValue("JUTF8st"))

\* the enumeration values asked for lie in MinValue..MaxValue, MinValue
\* being BelowZero values under 0
BelowZero == 8

MinValue == 0 - BelowZero

MaxValue == 40

InitLookup ==
    /\ cfg \in [value : MinValue..MaxValue]
    /\ mem = <<>>
    /\ text = [buffer |-> "buf", length |-> 0, offset |-> 0]
    /\ pc = "start"
    /\ last = [op |-> "none"]

\* the handler a lookup returned, with what it reports of itself
Found(op, tag) ==
    [op |-> op, class |-> tag, utfType |-> utfType(tag), utfSubType |-> utfSubType(tag)]

GetHandlerType ==
    /\ pc = "start"
    /\ last' = Found("type", getHandlerType(cfg.value))
    /\ pc' = "found"
    /\ UNCHANGED <<mem, text, cfg>>

GetHandlerSubType ==
    /\ pc = "start"
    /\ last' = Found("sub", getHandlerSub(cfg.value))
    /\ pc' = "found"
    /\ UNCHANGED <<mem, text, cfg>>

GetHandlerOtherType ==
    /\ pc = "start"
    /\ last' = Found("other", getHandlerOther(cfg.value))
    /\ pc' = "found"
    /\ UNCHANGED <<mem, text, cfg>>

NextLookup == GetHandlerType \/ GetHandlerSubType \/ GetHandlerOtherType

SpecLookup == InitLookup /\ [][NextLookup]_vars

\* C11: getHandler(UTF_TYPE t) returns a handler whose utfType() is t for
\* t in UTF8..UTF32be and the JUTF8st handler for OTHER and for every value
\* outside the enumeration; the sub-type and other-type lookups return the
\* JUTF8st handler for every value outside their enumerations.
LookupByType ==
    pc = "found" =>
        /\ (last.op = "type" =>
               IF cfg.value \in 0..4
               THEN last.utfType = TypeNames[cfg.value + 1]
               ELSE last.utfSubType = "JUTF8st")
        /\ (last.op = "sub" /\ cfg.value \notin 0..30 => last.utfSubType = "JUTF8st")
        /\ (last.op = "other" /\ cfg.value \notin 0..3 => last.utfSubType = "JUTF8st")

\* ------------------------------------------------------------------------
\* Specification SpecStream: a handler writes a sequence of scalars with
\* write(), then reads the written bytes back with read() from offset 0
\* ------------------------------------------------------------------------

\* at most MaxStream scalars are written
MaxStream == 2

\* room for MaxStream scalars of the longest encoding (a 2 x 4 byte pair)
StreamRoom == 8 * MaxStream

\* valid scalars of every encoded length, among them NUL (C0 80 in the
\* Java forms), CP1252 mapped and undefined code points, the byte order mark
\* and a non-character
StreamScalars ==
    { 0, \h41, \h81, \hE9, \h7FF, \h20AC, \hFEFF, \hFFFF, \h10000, \h1F600, \h10FFFF }

InitStream ==
    /\ \E tag \in Tags, n \in 0..MaxStream :
         \E s \in [1..n -> StreamScalars] : cfg = [tag |-> tag, scalars |-> s]
    /\ mem = [i \in 1..StreamRoom |-> 0]
    /\ text = [buffer |-> "buf", length |-> StreamRoom, offset |-> 0]
    /\ pc = "write"
    /\ last = [op |-> "none", sent |-> 0, ok |-> TRUE, got |-> <<>>, clean |-> TRUE]

\* handler.write(text, unicode) for the next scalar of the sequence
StreamWrite ==
    /\ pc = "write"
    /\ last.sent < Len(cfg.scalars)
    /\ LET r == set(cfg.tag, text, cfg.scalars[last.sent + 1])
       IN  /\ Written(r)
           /\ last' = [last EXCEPT !.op = "write", !.sent = @ + 1,
                                   !.ok = @ /\ no_error(r.errors)]
    /\ UNCHANGED <<cfg, pc>>

\* a cursor over exactly the written bytes, at offset 0
StreamRewind ==
    /\ pc = "write"
    /\ last.sent = Len(cfg.scalars)
    /\ text' = [text EXCEPT !.length = text.offset, !.offset = 0]
    /\ last' = [last EXCEPT !.op = "rewind"]
    /\ pc' = "read"
    /\ UNCHANGED <<mem, cfg>>

\* handler.read(text, unicode) while offset < length
StreamRead ==
    /\ pc = "read"
    /\ text.offset < text.length
    /\ LET r == get(cfg.tag, mem, text)
       IN  /\ text' = Advance(text, r.bytes)
           /\ last' = [last EXCEPT !.op = "read", !.got = Append(@, r.unicode),
                                   !.clean = @ /\ no_error(r.errors)]
           /\ pc' = IF r.bytes = 0 THEN "stuck" ELSE "read"
    /\ UNCHANGED <<mem, cfg>>

NextStream == StreamWrite \/ StreamRewind \/ StreamRead

SpecStream == InitStream /\ [][NextStream]_vars

\* C13: for every tag and every sequence of valid scalars the tag encodes
\* without a hard error, write() of each scalar in turn and then read()
\* from offset 0 over exactly the written bytes returns the same scalars in
\* the same order with no hard error, and ends at the written length.
StreamRoundTrip ==
    (pc \in {"read", "stuck"} /\ last.ok) =>
        /\ last.clean
        /\ pc = "read"
        /\ text.offset <= text.length
        /\ Len(last.got) <= Len(cfg.scalars)
        /\ last.got = SubSeq(cfg.scalars, 1, Len(last.got))
        /\ text.offset = text.length => last.got = cfg.scalars

StreamRoundTripWitness ==
    /\ pc = "read"
    /\ cfg.tag = "JCESU8" /\ cfg.scalars = <<\h1F600, 0>>
    /\ last.ok /\ last.clean
    /\ text.length = 8 /\ text.offset = text.length
    /\ last.got = cfg.scalars

\* ------------------------------------------------------------------------
\* Specification SpecDecode: one decodeUTF8 call, with any flags, at any
\* offset of a buffer of regular, irregular and malformed sequences
\* ------------------------------------------------------------------------

\* at most MaxParts sequences in a buffer
MaxParts == 2

\* ASCII; bytes that cannot begin a sequence; a lone lead byte; regular 2, 3
\* and 4 byte sequences; overlong forms; a high and a low surrogate; a scalar
\* above 0x10FFFF; a 5 and a 6 byte form; a lead byte short of a byte
DecodeSeqs ==
    { <<\h41>>, <<\h80>>, <<\hFE>>, <<\hFF>>, <<\hC3>>, <<\hC3, \hA9>>,
      <<\hC0, \h80>>, <<\hC1, \hBF>>, <<\hE0, \h80, \h80>>,
      <<\hED, \hA0, \h80>>, <<\hED, \hB0, \h80>>, <<\hEF, \hBF, \hBF>>,
      <<\hF0, \h9F, \h98, \h80>>, <<\hF4, \h90, \h80, \h80>>,
      <<\hF8, \h88, \h80, \h80, \h80>>, <<\hFC, \h84, \h80, \h80, \h80, \h80>>,
      <<\hE2, \h82>> }

InitDecode ==
    /\ \E c, j, s, k \in BOOLEAN :
         cfg = [flags |-> Flags("UTF8", c, j, s, k, FALSE, FALSE, FALSE), count |-> 1]
    /\ \E b \in Joined(DecodeSeqs, MaxParts), s \in Behind :
         /\ mem = b \o <<s>>
         /\ text \in [buffer : {"buf"}, length : {Len(b)}, offset : 0..Len(b)]
    /\ pc = "start"
    /\ last = [op |-> "none"]

\* decodeUTF8(text, unicode, bytes, use_cesu, use_java, strict, coalesce)
DecodeUTF8 ==
    /\ pc = "start"
    /\ LET r == decodeUTF8(mem, text, cfg.flags.use_cesu, cfg.flags.use_java,
                           cfg.flags.strict, cfg.flags.coalesce)
       IN  last' = [op |-> "decode", errors |-> r.errors, unicode |-> r.unicode,
                    bytes |-> r.bytes, reads |-> r.reads]
    /\ pc' = "decoded"
    /\ UNCHANGED <<mem, text, cfg>>

NextDecode == DecodeUTF8

SpecDecode == InitDecode /\ [][NextDecode]_vars

\* C15: for every buffer with at least one byte remaining and every use_cesu
\* and use_java, a decodeUTF8 call with strict = true that returns a hard
\* error reports bytes = 1, whatever the cause: an illegal or unexpected lead
\* byte, a bad continuation, a truncated sequence or an irregular form.
StrictRejectConsumesOne ==
    (/\ pc = "decoded"
     /\ cfg.flags.strict
     /\ text.offset < text.length
     /\ error(last.errors))
    => last.bytes = 1

\* a 5 byte form, complete, rejected by the strict decoder
StrictRejectWitness ==
    /\ pc = "decoded"
    /\ cfg.flags.strict
    /\ text.offset = 0 /\ text.length >= 5
    /\ At(mem, 0) = \hF8 /\ At(mem, 4) = \h80
    /\ "IrregularForm" \in last.errors /\ error(last.errors)
    /\ last.bytes = 1

\* ------------------------------------------------------------------------
\* Specification SpecDrain: a non-skipping handler reads a buffer with
\* read() for as long as offset < length
\* ------------------------------------------------------------------------

\* the non-skipping handlers
NsTags == { "UTF8ns", "JUTF8ns", "CESU8ns", "JCESU8ns", "BYTEns", "ASCIIns", "CP1252ns" }

\* at most MaxDrain sequences in a buffer
MaxDrain == 2

\* ASCII, a continuation byte, a lead byte without its continuation, a high
\* and a low surrogate, an illegal byte
DrainSeqs ==
    { <<\h41>>, <<\h80>>, <<\hC3>>, <<\hED, \hA0, \h80>>, <<\hED, \hB0, \h80>>, <<\hFE>> }

\* the buffers a handler reads
DrainTexts(tag) ==
    Joined(IF Handlers[tag].fam = "UTF8" THEN DrainSeqs ELSE Bytes, MaxDrain)

\* the byte count handler.get(text, unicode, bytes) reports at each offset
\* of each buffer, tabulated
GetBytes ==
    [tag \in NsTags |->
        [b \in DrainTexts(tag) |->
            [o \in 0..Len(b) |->
                get(tag, b, [buffer |-> "buf", length |-> Len(b), offset |-> o]).bytes]]]

InitDrain ==
    /\ cfg = [tag |-> "UTF8ns"]
    /\ mem = <<>>
    /\ text = [buffer |-> "buf", length |-> 0, offset |-> 0]
    /\ pc = "open"
    /\ last = [op |-> "none", from |-> 0, bytes |-> 0]

\* the caller takes a handler and a cursor on a buffer
DrainOpen ==
    /\ pc = "open"
    /\ \E tag \in NsTags :
         /\ cfg' = [tag |-> tag]
         /\ \E b \in DrainTexts(tag) :
              /\ mem' = b
              /\ text' = [buffer |-> "buf", length |-> Len(b), offset |-> 0]
    /\ pc' = "read"
    /\ UNCHANGED last

\* handler.read(text, unicode), called while offset < length
DrainRead ==
    /\ pc = "read"
    /\ text.offset < text.length
    /\ LET bytes == GetBytes[cfg.tag][mem][text.offset]
       IN  /\ text' = Advance(text, bytes)
           /\ last' = [op |-> "read", from |-> text.offset, bytes |-> bytes]
    /\ UNCHANGED <<mem, cfg, pc>>

NextDrain == DrainOpen \/ DrainRead

SpecDrain == InitDrain /\ [][NextDrain]_vars

\* the caller repeats read() for as long as offset < length
SpecDrainFair == SpecDrain /\ WF_vars(DrainRead)

\* C16: for every byte buffer and every ns tag, each read() made while
\* offset < length moves offset on by at least 1 and never beyond length, so
\* repeated reads eventually reach offset = length.
ReadsReachTheEnd ==
    /\ [][pc = "read" => (text'.offset > text.offset /\ text'.offset <= text'.length)]_vars
    /\ (pc = "read") ~> (text.offset = text.length)

\* a buffer of bytes that decode to nothing, read to its end one at a time
ReadsReachTheEndWitness ==
    /\ pc = "read" /\ cfg.tag = "UTF8ns"
    /\ text.length = 2 /\ At(mem, 0) = \h80 /\ At(mem, 1) = \hFE
    /\ last.op = "read" /\ last.from = 1 /\ last.bytes = 1
    /\ text.offset = text.length

\* ------------------------------------------------------------------------
\* Specification SpecOverlong: the overlong index functions, on indices and
\* on (scalar, bytes) pairs inside and outside the index table
\* ------------------------------------------------------------------------

\* a result of either function that reports false
NoOverlong == [ok |-> FALSE, index |-> 0, unicode |-> 0, bytes |-> 0]

\* overlongToIndexUTF8(unicode, bytes, index); unicode >= 0x00000000u
\* compares the scalar as unsigned
overlongToIndexUTF8(unicode, bytes) ==
    IF ~UGe(unicode, 0) THEN NoOverlong
    ELSE IF bytes = 2 /\ ULt(unicode, \h80)
    THEN [ok |-> TRUE, index |-> unicode, unicode |-> unicode, bytes |-> bytes]
    ELSE IF bytes = 3 /\ ULt(unicode, \h800)
    THEN [ok |-> TRUE, index |-> unicode + \h80, unicode |-> unicode, bytes |-> bytes]
    ELSE IF bytes = 4 /\ ULt(unicode, \h10000)
    THEN [ok |-> TRUE, index |-> unicode + \h880, unicode |-> unicode, bytes |-> bytes]
    ELSE IF bytes = 5 /\ ULt(unicode, \h200000)
    THEN [ok |-> TRUE, index |-> unicode + \h10880, unicode |-> unicode, bytes |-> bytes]
    ELSE IF bytes = 6 /\ ULt(unicode, \h4000000)
    THEN [ok |-> TRUE, index |-> unicode + \h210880, unicode |-> unicode, bytes |-> bytes]
    ELSE NoOverlong

\* an index decoder that knows the 2 byte row only
indexToOverlongUTF8Short(index) ==
    IF ULt(index, \h80)
    THEN [ok |-> TRUE, index |-> index, unicode |-> index, bytes |-> 2]
    ELSE NoOverlong

\* indexToOverlongUTF8(index, unicode, bytes)
indexToOverlongUTF8(index) ==
    IF ULt(index, \h80)
    THEN [ok |-> TRUE, index |-> index, unicode |-> index, bytes |-> 2]
    ELSE IF ULt(index, \h880)
    THEN [ok |-> TRUE, index |-> index, unicode |-> index - \h80, bytes |-> 3]
    ELSE IF ULt(index, \h10880)
    THEN [ok |-> TRUE, index |-> index, unicode |-> index - \h880, bytes |-> 4]
    ELSE IF ULt(index, \h210880)
    THEN [ok |-> TRUE, index |-> index, unicode |-> index - \h10880, bytes |-> 5]
    ELSE IF ULt(index, \h4210880)
    THEN [ok |-> TRUE, index |-> index, unicode |-> index - \h210880, bytes |-> 6]
    ELSE NoOverlong

\* every value 0..MaxOverDense is tried as an index
MaxOverDense == 160

\* the first and last value of every row, as index and as scalar, and
\* values past the table, up to 0xFFFFFFFF and the most negative scalar
OverEdges ==
    { \h7F, \h80, \h7FF, \h800, \h87F, \h880, \hFFFF, \h10000, \h1087F, \h10880,
      \h1FFFFF, \h200000, \h21087F, \h210880, \h3FFFFFF, \h4000000,
      \h421087F, \h4210880, \h4210881, \h7FFFFFFF, -1, -128, -2147483647 }

\* the byte counts tried: 0..MaxOverBytes
MaxOverBytes == 7

InitOverlong ==
    /\ \/ cfg \in [index : (0..MaxOverDense) \cup OverEdges, unicode : {0}, bytes : {0}]
       \/ cfg \in [index : {0}, unicode : OverEdges \cup {0, 1}, bytes : 0..MaxOverBytes]
    /\ mem = <<>>
    /\ text = [buffer |-> "buf", length |-> 0, offset |-> 0]
    /\ pc = "start"
    /\ last = [op |-> "none"]

\* indexToOverlongUTF8(index, unicode, bytes)
IndexToOverlong ==
    /\ pc = "start"
    /\ last' = [op |-> "toOverlong"] @@ indexToOverlongUTF8(cfg.index)
    /\ pc' = "overlong"
    /\ UNCHANGED <<mem, text, cfg>>

\* overlongToIndexUTF8 on the pair indexToOverlongUTF8 returned
IndexBack ==
    /\ pc = "overlong"
    /\ last.ok
    /\ last' = [op |-> "back"] @@ overlongToIndexUTF8(last.unicode, last.bytes)
    /\ pc' = "index"
    /\ UNCHANGED <<mem, text, cfg>>

\* overlongToIndexUTF8(unicode, bytes, index) on any pair
PairToIndex ==
    /\ pc = "start"
    /\ last' = [op |-> "toIndex"] @@ overlongToIndexUTF8(cfg.unicode, cfg.bytes)
    /\ pc' = "direct"
    /\ UNCHANGED <<mem, text, cfg>>

NextOverlong == IndexToOverlong \/ IndexBack \/ PairToIndex

SpecOverlong == InitOverlong /\ [][NextOverlong]_vars

\* the rows of the index table: byte count, number of scalars, first index
OverlongRows ==
    { [bytes |-> 2, scalars |-> \h80, first |-> 0],
      [bytes |-> 3, scalars |-> \h800, first |-> \h80],
      [bytes |-> 4, scalars |-> \h10000, first |-> \h880],
      [bytes |-> 5, scalars |-> \h200000, first |-> \h10880],
      [bytes |-> 6, scalars |-> \h4000000, first |-> \h210880] }

\* the pair lies in the row
InRow(row, unicode, bytes) ==
    bytes = row.bytes /\ unicode >= 0 /\ unicode < row.scalars

\* the index lies in the row
IndexInRow(row, index) ==
    index >= row.first /\ index < row.first + row.scalars

\* C17: for every index i in [0, 0x04210880), indexToOverlongUTF8(i)
\* succeeds with a pair in the table row that contains i, and
\* overlongToIndexUTF8 of that pair returns i; indexToOverlongUTF8 returns
\* false for every other index and overlongToIndexUTF8 returns false for
\* every pair outside the rows.
OverlongIndexBijection ==
    /\ pc = "overlong" =>
           IF cfg.index >= 0 /\ cfg.index < \h4210880
           THEN /\ last.ok
                /\ \E row \in OverlongRows :
                       IndexInRow(row, cfg.index) /\ InRow(row, last.unicode, last.bytes)
           ELSE ~last.ok
    /\ pc = "index" => (last.ok /\ last.index = cfg.index)
    /\ (pc = "direct" /\ ~\E row \in OverlongRows : InRow(row, cfg.unicode, cfg.bytes))
           => ~last.ok

\* the first index of the 5 byte row, there and back
OverlongIndexWitness ==
    /\ pc = "index"
    /\ cfg.index = \h10880
    /\ last.ok /\ last.unicode = 0 /\ last.bytes = 5 /\ last.index = \h10880

\* ------------------------------------------------------------------------
\* Specification SpecEncode: every raw encoder on cursors that are null,
\* past their length, misaligned, too short, and on scalars that cannot be
\* encoded
\* ------------------------------------------------------------------------

\* the lead byte marker of a sequence of `bytes` bytes: (~mask << 1) as uint8
LeadMark(bytes) ==
    CASE bytes = 2 -> \hC0 [] bytes = 3 -> \hE0 [] bytes = 4 -> \hF0
      [] bytes = 5 -> \hF8 [] bytes = 6 -> \hFC [] OTHER -> 0

\* mask + 1, mask being (bytes > 1) ? (0x7f >> bytes) : 0x7f
LeadRoom(bytes) == IF bytes > 1 THEN 2 ^ (7 - bytes) ELSE 128

\* the bytes the store loop of encodeUTF8n writes
BytesUTF8n(unicode, bytes) ==
    [i \in 1..bytes |->
        IF i = 1
        THEN ((unicode \div (64 ^ (bytes - 1))) % LeadRoom(bytes)) + LeadMark(bytes)
        ELSE \h80 + ((unicode \div (64 ^ (bytes - i))) % 64)]

\* unicode >> k on the int32 unicode, for k in 0..31
Sar(unicode, k) ==
    IF k >= 31 THEN (IF unicode < 0 THEN -1 ELSE 0) ELSE unicode \div (2 ^ k)

\* encodeUTF8n(text, unicode, bytes, use_java); bytes is passed by value
encodeUTF8n(t, unicode, bytes, use_java) ==
    LET e0 == get_errors(t)
        n  == BitOr(bytes, bytes * 4) - 6
        e1 == IF bytes >= 1 /\ bytes <= 6
              THEN IF unicode = 0
                   THEN e0 \cup (IF bytes < 2 THEN {"DelimitString"}
                                 ELSE IF bytes > 2 THEN {"OverlongUTF8", "IrregularForm"}
                                 ELSE IF use_java THEN {"ModifiedUTF8"}
                                 ELSE {"ModifiedUTF8", "IrregularForm"})
                   ELSE IF Sar(unicode, ClampShift(n)) # 0
                   THEN e0 \cup {"Failed", "NotEncodable", "NotEnoughBits"}
                   ELSE IF bytes > 1 /\ Sar(unicode, ClampShift(n - 5)) = 0
                   THEN e0 \cup {"OverlongUTF8", "IrregularForm"}
                   ELSE e0
              ELSE e0 \cup {"Failed", "NotEncodable", "BadSizeUTF8"}
        \* unicode < 0x00000000u is an unsigned comparison and never holds
        e2 == IF UGe(unicode, \hD800)
              THEN IF UGt(unicode, \h10FFFF)
                   THEN e1 \cup (IF UGt(unicode, \h1FFFFF)
                                 THEN {"ExtendedUTF8", "ExtendedUCS4", "IrregularForm"}
                                 ELSE {"ExtendedUCS4", "IrregularForm"})
                   ELSE IF UGe(unicode, \hFDD0)
                   THEN e1 \cup (IF IsNonChar(unicode) THEN {"NonCharacter"} ELSE {}) \cup
                        (IF UGt(unicode, \hFFFF) THEN {"Supplementary"} ELSE {})
                   ELSE IF IsSurrogate(unicode)
                   THEN e1 \cup (IF IsLowHalf(unicode)
                                 THEN {"LowSurrogate", "IrregularForm"}
                                 ELSE {"HighSurrogate", "IrregularForm"})
                   ELSE e1
              ELSE e1
    IN  IF no_error(e2)
        THEN [Put(e2, t.length - t.offset, BytesUTF8n(unicode, bytes)) EXCEPT !.bytes = bytes]
        ELSE [NoPut(e2) EXCEPT !.bytes = bytes]

\* the bytes of the buffer that exist: 0..EncodeRoom
EncodeRoom == 8

\* the byte counts passed to encodeUTF8n: 0..MaxWidth
MaxWidth == 7

\* what the buffer holds before the encoder runs
Blank == [i \in 1..EncodeRoom |-> \h5A]

EncodeScalars ==
    { -2147483647, -1, 0, \h41, \h7F, \h80, \hFF, \h100, \h7FF, \h800, \h20AC, \hD800,
      \hDC00, \hFFFE, \hFFFF, \h10000, \h10FFFF, \h110000, \h200000, \h7FFFFFFF }

InitEncode ==
    /\ \E length \in 0..EncodeRoom, offset \in 0..(EncodeRoom + 1) :
           /\ offset <= length + 1
           /\ text \in [buffer : {"buf", "nullptr"}, length : {length}, offset : {offset}]
    /\ cfg \in [unicode : EncodeScalars, text : {text}]
    /\ mem = Blank
    /\ pc = "start"
    /\ last = [op |-> "none"]

\* what an encoder that returned r leaves behind; counted tells whether the
\* encoder has a bytes output
Encoded(op, counted, r) ==
    /\ pc = "start"
    /\ mem' = Store(mem, text.offset, r.out)
    /\ last' = [op |-> op, counted |-> counted, errors |-> r.errors, bytes |-> r.bytes]
    /\ pc' = "encoded"
    /\ UNCHANGED <<text, cfg>>

EncodeBYTE ==
    \E use_ascii \in BOOLEAN :
        Encoded("encodeBYTE", TRUE, encodeBYTE(text, cfg.unicode, use_ascii))

EncodeUTF8 ==
    \E use_cesu, use_java \in BOOLEAN :
        Encoded("encodeUTF8", TRUE, encodeUTF8(text, cfg.unicode, use_cesu, use_java))

EncodeUTF8n ==
    \E bytes \in 0..MaxWidth, use_java \in BOOLEAN :
        Encoded("encodeUTF8n", FALSE, encodeUTF8n(text, cfg.unicode, bytes, use_java))

EncodeUTF16 ==
    \E le, use_ucs2 \in BOOLEAN :
        Encoded("encodeUTF16", TRUE, encodeUTF16(text, cfg.unicode, le, use_ucs2))

EncodeUTF32 ==
    \E le, use_cesu, use_ucs4 \in BOOLEAN :
        Encoded("encodeUTF32", TRUE, encodeUTF32(text, cfg.unicode, le, use_cesu, use_ucs4))

EncodeCP1252 ==
    \E strict \in BOOLEAN :
        Encoded("encodeCP1252", TRUE, encodeCP1252(text, cfg.unicode, strict))

EncodeBOM ==
    \/ Encoded("encodeUTF8_BOM", TRUE, encodeUTF8_BOM(text))
    \/ \E le \in BOOLEAN : Encoded("encodeUTF16_BOM", TRUE, encodeUTF16_BOM(text, le))
    \/ \E le \in BOOLEAN : Encoded("encodeUTF32_BOM", TRUE, encodeUTF32_BOM(text, le))

EncodeNULL ==
    \/ Encoded("encodeUTF8_NULL", TRUE, encodeUTF8_NULL(text))
    \/ Encoded("encodeUTF16_NULL", TRUE, encodeUTF16_NULL(text))
    \/ Encoded("encodeUTF32_NULL", TRUE, encodeUTF32_NULL(text))

NextEncode ==
    \/ EncodeBYTE \/ EncodeUTF8 \/ EncodeUTF8n \/ EncodeUTF16 \/ EncodeUTF32
    \/ EncodeCP1252 \/ EncodeBOM \/ EncodeNULL

SpecEncode == InitEncode /\ [][NextEncode]_vars

\* C18: every raw encoder leaves text.offset and text.length as they
\* were, and an encoder that returns a hard error reports bytes == 0 (where
\* it has a bytes output) and has modified no byte of the buffer.
FailedEncodeHasNoEffect ==
    pc = "encoded" =>
        /\ text.offset = cfg.text.offset
        /\ text.length = cfg.text.length
        /\ error(last.errors) =>
               /\ last.counted => last.bytes = 0
               /\ mem = Blank

\* encodeUTF8 of U+20AC with two bytes left: write overflow, buffer untouched
FailedEncodeWitness ==
    /\ pc = "encoded"
    /\ last.op = "encodeUTF8"
    /\ cfg.unicode = \h20AC
    /\ text.buffer = "buf" /\ text.length - text.offset = 2
    /\ "WriteOverflow" \in last.errors
    /\ last.bytes = 0
    /\ mem = Blank

\* ------------------------------------------------------------------------
\* Specification SpecNLF: readNLF over texts of line ends of every kind
\* ------------------------------------------------------------------------

\* the scalars of the texts: the seven line ends, a letter, the string end
\* and the neighbours U+0009, U+000E, U+0084, U+2027 and U+202A
NLFScalars ==
    { 0, \h09, \h0A, \h0B, \h0C, \h0D, \h0E, \h41, \h84, \h85, \h2027, \h2028, \h2029,
      \h202A }

\* UTF-8 sequences: the line ends, their neighbours, the overlong forms of
\* the line-feed and the carriage return, and a byte that does not decode
NLFSeqsUTF8 ==
    { <<0>>, <<\h0A>>, <<\h0B>>, <<\h0C>>, <<\h0D>>, <<\h0E>>, <<\h41>>,
      <<\hC2, \h84>>, <<\hC2, \h85>>, <<\hE2, \h80, \hA7>>, <<\hE2, \h80, \hA8>>,
      <<\hE2, \h80, \hA9>>, <<\hC0, \h8A>>, <<\hC0, \h8D>>, <<\h80>> }

\* the texts have at most MaxNLF pieces
MaxNLF == 2

NLFTexts(tag) ==
    LET h == Handlers[tag]
    IN  Joined(CASE h.fam = "UTF8"  -> NLFSeqsUTF8
                 [] h.fam = "UTF16" -> {Unit16(u, h.le) : u \in NLFScalars \cup {\hD800}}
                 [] h.fam = "UTF32" -> {Unit32(u, h.le) : u \in NLFScalars \cup {\h110000}}
                 [] OTHER           -> {<<u>> : u \in {v \in NLFScalars : v < 256} \cup {\h80}},
               MaxNLF)

InitNLF ==
    /\ cfg \in [tag : Tags]
    /\ \E b \in NLFTexts(cfg.tag) :
         /\ mem = b \o <<0>>
         /\ text = [buffer |-> "buf", length |-> Len(b), offset |-> 0]
    /\ pc = "scan"
    /\ last = [op |-> "none"]

\* readNLF that found r; first is what get() returns at the cursor and
\* second what it returns behind first
FoundNLF(first, second, r) ==
    /\ text' = Advance(text, r.bytes)
    /\ last' = [op |-> "readNLF", from |-> text.offset, first |-> first, second |-> second,
                errors |-> r.errors, unicode |-> r.unicode, bytes |-> r.bytes]

\* first is what get() returns at the cursor
BehindNLF(first) ==
    FoundNLF(first, get(cfg.tag, mem, Advance(text, first.bytes)),
             GotNLF(cfg.tag, mem, text, first))

\* handler.readNLF(text, unicode) while the cursor is inside the text
NLFRead ==
    /\ pc = "scan"
    /\ text.offset < text.length
    /\ BehindNLF(get(cfg.tag, mem, text))
    /\ pc' = IF text'.offset = text.offset THEN "stuck" ELSE "scan"
    /\ UNCHANGED <<mem, cfg>>

NextNLF == NLFRead

SpecNLF == InitNLF /\ [][NextNLF]_vars

\* the other of line-feed and carriage return
OtherOfPair(unicode) == IF unicode = \h0A THEN \h0D ELSE \h0A

\* C19: when get() decodes one of U+000A, U+000B, U+000C, U+000D, U+0085,
\* U+2028, U+2029, getNLF reports U+000A; a U+000A or U+000D followed by a
\* decoded scalar that is the other of the two is consumed with it, bytes
\* being the sum of the two reads; LF LF and CR CR are not joined; every
\* other scalar is returned unchanged with the byte count of the get().
NormalizedLineFeed ==
    (last.op = "readNLF" /\ no_error(last.first.errors)) =>
        /\ text.offset = last.from + last.bytes
        /\ IF last.first.unicode \in {\h0A, \h0D}
           THEN /\ last.unicode = \h0A
                /\ last.bytes =
                       IF last.second.unicode = OtherOfPair(last.first.unicode)
                       THEN last.first.bytes + last.second.bytes
                       ELSE last.first.bytes
           ELSE IF last.first.unicode \in {\h0B, \h0C, \h85, \h2028, \h2029}
           THEN last.unicode = \h0A /\ last.bytes = last.first.bytes
           ELSE last.unicode = last.first.unicode /\ last.bytes = last.first.bytes

\* CR LF under UTF-8: one U+000A, two bytes
NormalizedLineFeedWitness ==
    /\ cfg.tag = "UTF8"
    /\ last.op = "readNLF"
    /\ last.from = 0
    /\ Len(mem) = 3 /\ mem[1] = \h0D /\ mem[2] = \h0A
    /\ last.unicode = \h0A
    /\ last.bytes = 2
    /\ text.offset = 2

\* the scalar behind a line-feed or carriage return never fails to decode
\* with the other of the two as its value
NLFSecondIsDecoded ==
    (last.op = "readNLF" /\ no_error(last.first.errors)
        /\ last.first.unicode \in {\h0A, \h0D}
        /\ last.second.unicode = OtherOfPair(last.first.unicode))
    => no_error(last.second.errors)

\* ------------------------------------------------------------------------
\* Specification SpecRune: is_rune_value() of a cp_errors value under |= and
\* clear
\* ------------------------------------------------------------------------

\* ScalarDisallowedMask: the complement of the seven bits listed
ScalarDisallowedMask ==
    AllBits \ { "Supplementary", "NonCharacter", "SurrogatePair", "IrregularForm",
                "ModifiedUTF8", "OverlongUTF8", "ExtendedUTF8" }

\* cp_errors::is_rune_value : none(ScalarDisallowedMask)
is_rune_value(state) == noneOf(state, ScalarDisallowedMask)

\* the bits the diagnostic is driven with: the scalar warnings, two hard
\* errors, the string delimiter and a byte-index bit
RuneBits ==
    { "Supplementary", "NonCharacter", "HighSurrogate", "LowSurrogate", "SurrogatePair",
      "IrregularForm", "OverlongUTF8", "ModifiedUTF8", "ExtendedUTF8",
      "Failed", "NotDecodable", "DelimitString", "ReservedBit0" }

\* at most MaxRuneBits bits are set at once
MaxRuneBits == 3

InitRune ==
    /\ cfg = [tag |-> "none"]
    /\ mem = <<>>
    /\ text = [buffer |-> "nullptr", length |-> 0, offset |-> 0]
    /\ pc = "rune"
    /\ last = [op |-> "cp_errors", errors |-> {}, rune |-> is_rune_value({})]

\* errors |= bit, then errors.is_rune_value()
RuneOr ==
    /\ pc = "rune"
    /\ \E bit \in RuneBits :
         /\ Cardinality(last.errors \cup {bit}) <= MaxRuneBits
         /\ last' = [op |-> "or", errors |-> last.errors \cup {bit},
                     rune |-> is_rune_value(last.errors \cup {bit})]
    /\ UNCHANGED <<mem, text, cfg, pc>>

\* errors.clear(bit), then errors.is_rune_value()
RuneClear ==
    /\ pc = "rune"
    /\ \E bit \in RuneBits :
         last' = [op |-> "clear", errors |-> last.errors \ {bit},
                  rune |-> is_rune_value(last.errors \ {bit})]
    /\ UNCHANGED <<mem, text, cfg, pc>>

NextRune == RuneOr \/ RuneClear

SpecRune == InitRune /\ [][NextRune]_vars

\* C20: is_rune_value() is false whenever one of Supplementary,
\* NonCharacter, HighSurrogate, LowSurrogate, SurrogatePair, IrregularForm,
\* OverlongUTF8, ModifiedUTF8, ExtendedUTF8 or a hard-error bit is set, and
\* true for a diagnostic with no bit set.
RuneValueIsPlain ==
    pc = "rune" =>
        /\ anyOf(last.errors,
                 { "Supplementary", "NonCharacter", "HighSurrogate", "LowSurrogate",
                   "SurrogatePair", "IrregularForm", "OverlongUTF8", "ModifiedUTF8",
                   "ExtendedUTF8" } \cup ErrorsMask) => ~last.rune
        /\ last.errors = {} => last.rune

\* ------------------------------------------------------------------------
\* Specification SpecLine: readLine over texts of letters, line ends,
\* string ends and units that do not decode
\* ------------------------------------------------------------------------

\* the scalars of the texts
LineScalars == {0, \h0A, \h0D, \h41}

\* the texts have at most MaxLine pieces
MaxLine == 3

LineTexts(tag) ==
    LET h == Handlers[tag]
    IN  Joined(CASE h.fam = "UTF16" -> {Unit16(u, h.le) : u \in LineScalars \cup {\hDC00}}
                 [] h.fam = "UTF32" -> {Unit32(u, h.le) : u \in LineScalars \cup {\h110000}}
                 [] OTHER           -> {<<u>> : u \in LineScalars \cup {\h80}},
               MaxLine)

\* the bytes of a text that is not a whole number of units: none, or one
LineTails == {<<>>, <<\h41>>}

InitLine ==
    /\ cfg \in [tag : Tags]
    /\ \E b \in LineTexts(cfg.tag), tail \in LineTails, s \in Behind :
         /\ mem = b \o tail \o <<s>>
         /\ text \in [buffer : {"buf"}, length : {Len(b) + Len(tail)},
                      offset : 0..(Len(b) + Len(tail))]
    /\ pc = "start"
    /\ last = [op |-> "none"]

\* readLine after getLine returned r
LineFound(r) ==
    /\ text' = Advance(text, r.bytes)
    /\ last' = [op |-> "readLine", from |-> text.offset, errors |-> r.errors,
                bytes |-> r.bytes, length |-> r.length, buffer |-> r.buffer]

\* handler.readLine(text, line)
LineRead ==
    /\ pc = "start"
    /\ LineFound(getLine(cfg.tag, mem, text))
    /\ pc' = "read"
    /\ UNCHANGED <<mem, cfg>>

\* handler.readLine(text, line) on the cursor the first readLine left
LineReadOn ==
    /\ pc = "read"
    /\ last.bytes > 0
    /\ text.offset < text.length
    /\ LineFound(getLine(cfg.tag, mem, text))
    /\ pc' = "read"
    /\ UNCHANGED <<mem, cfg>>

NextLine == LineRead \/ LineReadOn

SpecLine == InitLine /\ [][NextLine]_vars

RECURSIVE LineWalk(_, _, _, _)
\* the walk from pos after getNLF there returned r
LineWalked(tag, m, t, pos, r) ==
    IF error(r.errors) THEN [found |-> FALSE, length |-> 0, bytes |-> 0]
    ELSE IF r.unicode = \h0A \/ r.unicode = 0
    THEN [found |-> TRUE, length |-> pos - t.offset, bytes |-> pos - t.offset + r.bytes]
    ELSE LineWalk(tag, m, t, pos + r.bytes)

\* getNLF read after read from pos until U+000A or U+0000 is produced or a
\* read returns a hard error
LineWalk(tag, m, t, pos) ==
    LineWalked(tag, m, t, pos, getNLF(tag, m, [t EXCEPT !.offset = pos]))

\* what readLine reported against the walk w
LineAsWalked(w) ==
    IF w.found
    THEN /\ no_error(last.errors)
         /\ last.buffer = "buf"
         /\ last.length = w.length
         /\ last.bytes = w.bytes
         /\ text.offset = last.from + w.bytes
    ELSE /\ error(last.errors)
         /\ last.buffer = "nullptr"
         /\ last.length = 0

\* C21: getLine reads scalars with getNLF from text.offset until U+000A or
\* U+0000 is produced (the end of the buffer producing 0); the line starts at
\* text.offset, its length is the number of bytes before the terminator,
\* bytes is that length plus the terminator's byte count and readLine leaves
\* the cursor just behind the terminator; when a read returns a hard error
\* first, the line is empty with a null buffer.
LineExtraction ==
    last.op = "readLine" =>
        LineAsWalked(LineWalk(cfg.tag, mem,
                              [buffer |-> "buf", length |-> text.length, offset |-> last.from],
                              last.from))

\* 'A' CR LF 'A' under UTF-8: a line of one byte, three bytes consumed
LineExtractionWitness ==
    /\ cfg.tag = "UTF8"
    /\ last.op = "readLine"
    /\ last.from = 0
    /\ text.length = 4
    /\ mem[1] = \h41 /\ mem[2] = \h0D /\ mem[3] = \h0A /\ mem[4] = \h41
    /\ last.length = 1
    /\ last.bytes = 3
    /\ text.offset = 3

\* ------------------------------------------------------------------------
\* Specification SpecValidate: validate(text), its loop taken one read at a
\* time, on cursors that are valid, null, past their length or misaligned
\* ------------------------------------------------------------------------

\* the texts have at most MaxValid pieces
MaxValid == 2

ValidTexts(tag) ==
    LET h == Handlers[tag]
        S == Joined(CASE h.fam = "UTF8"  -> {<<0>>, <<\h41>>, <<\h80>>, <<\hED, \hA0, \h80>>}
                      [] h.fam = "UTF16" -> {Unit16(u, h.le) : u \in {0, \h41, \hDC00}}
                      [] h.fam = "UTF32" -> {Unit32(u, h.le) : u \in {0, \h41, \h110000}}
                      [] OTHER           -> {<<0>>, <<\h41>>, <<\h81>>},
                    MaxValid)
    IN  S \cup {b \o <<\h41>> : b \in S}

\* get() at every offset of every text: the diagnostic and the byte count
ValidGets ==
    [tag \in Tags |-> [b \in ValidTexts(tag) |-> [o \in 0..Len(b) |->
        LET r == get(tag, b, [buffer |-> "buf", length |-> Len(b), offset |-> o])
        IN  [errors |-> r.errors, bytes |-> r.bytes]]]]

InitValidate ==
    /\ cfg = [tag |-> "UTF8"]
    /\ mem = <<>>
    /\ text = [buffer |-> "buf", length |-> 0, offset |-> 0]
    /\ pc = "idle"
    /\ last = [op |-> "none", scan |-> 0, errors |-> {}, reads |-> 0]

\* the caller's cursor and handler
ValidateOpen ==
    /\ pc = "idle"
    /\ \E tag \in Tags :
         /\ cfg' = [tag |-> tag]
         /\ \E b \in ValidTexts(tag) :
              /\ mem' = b
              /\ \/ text' \in [buffer : {"buf"}, length : {Len(b)}, offset : 0..(Len(b) + 1)]
                 \/ text' \in [buffer : {"nullptr"}, length : {Len(b)}, offset : {0, 1}]
    /\ pc' = "call"
    /\ UNCHANGED last

\* validate: errors = get_errors(text), scan = text
ValidateEnter ==
    /\ pc = "call"
    /\ last' = [op |-> "validate", scan |-> text.offset, errors |-> get_errors(text),
                reads |-> 0]
    /\ pc' = IF no_error(get_errors(text)) THEN "loop" ELSE "done"
    /\ UNCHANGED <<mem, text, cfg>>

\* a turn of the loop that drops what the read reported
ValidateGotForgets(r) ==
    /\ last' = [op |-> "read", scan |-> last.scan + r.bytes,
                errors |-> last.errors, reads |-> last.reads + 1]
    /\ pc' = IF error(last.errors \cup r.errors) THEN "done" ELSE "loop"

\* one turn of the while loop after read(scan, unicode) returned r
ValidateGot(r) ==
    /\ last' = [op |-> "read", scan |-> last.scan + r.bytes,
                errors |-> last.errors \cup r.errors, reads |-> last.reads + 1]
    /\ pc' = IF error(last.errors \cup r.errors) THEN "done" ELSE "loop"

\* while (scan.offset < scan.length) { errors |= read(scan, unicode); ... }
ValidateRead ==
    /\ pc = "loop"
    /\ last.scan < text.length
    /\ ValidateGot(ValidGets[cfg.tag][mem][last.scan])
    /\ UNCHANGED <<mem, text, cfg>>

\* the loop ends at the end of the buffer
ValidateReturn ==
    /\ pc = "loop"
    /\ ~(last.scan < text.length)
    /\ last' = [last EXCEPT !.op = "return"]
    /\ pc' = "done"
    /\ UNCHANGED <<mem, text, cfg>>

NextValidate == ValidateOpen \/ ValidateEnter \/ ValidateRead \/ ValidateReturn

SpecValidate == InitValidate /\ [][NextValidate]_vars

\* the loop of validate runs on while the call has not returned
SpecValidateFair ==
    SpecValidate /\ WF_vars(ValidateEnter) /\ WF_vars(ValidateRead) /\ WF_vars(ValidateReturn)

RECURSIVE ReadsOr(_, _, _, _)
\* the reads from pos on, after the read at pos returned r
ReadsOrGot(tag, m, t, pos, r) ==
    IF error(r.errors) \/ r.bytes = 0 THEN r.errors
    ELSE r.errors \cup ReadsOr(tag, m, t, pos + r.bytes)

\* the OR of the diagnostics of the successive reads from pos up to and
\* including the first with a hard error, or up to the end of the buffer
ReadsOr(tag, m, t, pos) ==
    IF pos >= t.length THEN {}
    ELSE ReadsOrGot(tag, m, t, pos, get(tag, m, [t EXCEPT !.offset = pos]))

\* C22 as stated: validate(text) always terminates, does not change the
\* caller's cursor or buffer, and returns the OR of the diagnostics of the
\* successive reads from text.offset up to and including the first read with
\* a hard error, or of all reads up to the end of the buffer; so error() is
\* set exactly when a read on that path returned a hard error.
ValidateOrsItsReads ==
    /\ [][pc # "idle" => (text' = text /\ mem' = mem)]_vars
    /\ (pc = "call") ~> (pc = "done")
    /\ [](pc = "done" => last.errors = ReadsOr(cfg.tag, mem, text, text.offset))

\* C22: validate(text) always terminates, does not change the caller's
\* cursor or buffer, and returns get_errors(text) without a read when the
\* buffer is null or the offset is past the length; otherwise it returns the
\* OR of the diagnostics of the successive reads from text.offset up to and
\* including the first read with a hard error, or of all reads up to the end
\* of the buffer.
ValidateOrsReadsOfValidCursor ==
    /\ [][pc # "idle" => (text' = text /\ mem' = mem)]_vars
    /\ (pc = "call") ~> (pc = "done")
    /\ [](pc = "done" =>
            IF error(get_errors(text))
            THEN last.errors = get_errors(text) /\ last.reads = 0
            ELSE last.errors = ReadsOr(cfg.tag, mem, text, text.offset))

\* 'A' then a stray continuation byte under UTF8st: the second read fails
ValidateWitness ==
    /\ pc = "done"
    /\ cfg.tag = "UTF8st"
    /\ mem = <<\h41, \h80>>
    /\ text = [buffer |-> "buf", length |-> 2, offset |-> 0]
    /\ last.reads = 2
    /\ "Failed" \in last.errors

\* ------------------------------------------------------------------------
\* Specification SpecMask: errors_only() and warnings_only() of a cp_errors
\* value driven through every bit
\* ------------------------------------------------------------------------

\* an errors_only that masks nothing
errors_onlyWhole(state) == state

\* cp_errors::errors_only : state & ErrorsMask
errors_only(state) == state \cap ErrorsMask

\* cp_errors::warnings_only : state & WarningsMask
warnings_only(state) == state \cap WarningsMask

\* at most MaxMaskBits of the 32 bits are set at once
MaxMaskBits == 2

\* the diagnostic with what its accessors return
Masked(op, state) ==
    [op |-> op, errors |-> state, only_errors |-> errors_only(state),
     only_warnings |-> warnings_only(state), error |-> error(state)]

InitMask ==
    /\ cfg = [tag |-> "none"]
    /\ mem = <<>>
    /\ text = [buffer |-> "nullptr", length |-> 0, offset |-> 0]
    /\ pc = "mask"
    /\ last = Masked("cp_errors", {})

\* errors |= bit, then the accessors
MaskOr ==
    /\ pc = "mask"
    /\ \E bit \in AllBits :
         /\ Cardinality(last.errors \cup {bit}) <= MaxMaskBits
         /\ last' = Masked("or", last.errors \cup {bit})
    /\ UNCHANGED <<mem, text, cfg, pc>>

\* errors.clear(bit), then the accessors
MaskClear ==
    /\ pc = "mask"
    /\ \E bit \in AllBits : last' = Masked("clear", last.errors \ {bit})
    /\ UNCHANGED <<mem, text, cfg, pc>>

NextMask == MaskOr \/ MaskClear

SpecMask == InitMask /\ [][NextMask]_vars

\* the hard-error bits as the design lists them
HardErrorBits ==
    { "Failed", "InvalidBuffer", "InvalidOffset", "MisalignedOffset", "MisalignedLength",
      "WriteOverflow", "ReadTruncated", "NotEncodable", "NotDecodable", "BadSizeUTF8",
      "Untransformable", "NotEnoughBits", "DisallowedByte", "UnexpectedByte" }

\* the warning bits as the design lists them
WarningBits ==
    { "ReadExhausted", "InvalidPoint", "ExtendedUCS4", "Supplementary", "NonCharacter",
      "TruncatedPair", "SurrogatePair", "HighSurrogate", "LowSurrogate", "DelimitString",
      "IrregularForm", "ModifiedUTF8", "OverlongUTF8", "ExtendedUTF8" }

\* C23: errors_only() holds only hard-error bits and warnings_only() only
\* warning bits (ReadExhausted and InvalidPoint are warnings), each keeps the
\* bits of its group that are set, the two share no bit, neither holds a
\* byte-index bit, and error() is true exactly when errors_only() is not
\* empty.
ErrorAndWarningBitsDisjoint ==
    pc = "mask" =>
        /\ last.only_errors = last.errors \cap HardErrorBits
        /\ last.only_warnings = last.errors \cap WarningBits
        /\ last.only_errors \cap {"ReadExhausted", "InvalidPoint"} = {}
        /\ last.only_errors \cap last.only_warnings = {}
        /\ (last.only_errors \cup last.only_warnings)
               \cap {"ReservedBit0", "ReservedBit1", "ReservedBit2"} = {}
        /\ last.error <=> (last.only_errors # {})

\* Failed with ReadExhausted: one bit in each group
ErrorAndWarningWitness ==
    /\ pc = "mask"
    /\ last.errors = {"Failed", "ReadExhausted"}
    /\ last.only_errors = {"Failed"}
    /\ last.only_warnings = {"ReadExhausted"}

\* ------------------------------------------------------------------------
\* Specification SpecHandler: a UTF-8 family handler reads to a boundary of
\* its decoder and then steps one code point
\* ------------------------------------------------------------------------

Utf8Tags ==
    { "UTF8", "UTF8ns", "UTF8st", "JUTF8", "JUTF8ns", "JUTF8st",
      "CESU8", "CESU8ns", "CESU8st", "JCESU8", "JCESU8ns", "JCESU8st" }

\* the texts have at most MaxHandled sequences
MaxHandled == 2

HandledSeqs ==
    { <<\h41>>, <<\hC3, \hA9>>, <<\hC0, \h80>>, <<\hE2, \h82, \hAC>>, <<\hED, \hA0, \h80>>,
      <<\hED, \hB0, \h80>>, <<\hF0, \h9F, \h98, \h80>>, <<\h80>> }

\* the flags get() passes to decodeUTF8
GetFlags(tag) ==
    [use_cesu |-> Handlers[tag].use_cesu, use_java |-> Handlers[tag].use_java,
     strict |-> Handlers[tag].strict, coalesce |-> Handlers[tag].coalesce]

\* the flags step() and back() pass to stepUTF8 and backUTF8: three
\* arguments in the order of the parameters, coalesce left at its default
StepFlags(tag) ==
    [use_cesu |-> Handlers[tag].skip[1], use_java |-> Handlers[tag].skip[2],
     strict |-> Handlers[tag].skip[3], coalesce |-> TRUE]

InitHandler ==
    /\ cfg \in [tag : Utf8Tags]
    /\ \E b \in Joined(HandledSeqs, MaxHandled), s \in Behind :
         /\ mem = b \o <<s>>
         /\ text = [buffer |-> "buf", length |-> Len(b), offset |-> 0]
    /\ pc = "boundary"
    /\ last = [op |-> "none"]

\* handler.read(text, unicode) after get() returned r
HandlerGot(r) ==
    /\ no_error(r.errors)
    /\ text' = Advance(text, r.bytes)
    /\ last' = [op |-> "read", from |-> text.offset, bytes |-> r.bytes]

\* handler.read(text, unicode) inside the text
HandlerRead ==
    /\ pc = "boundary"
    /\ text.offset < text.length
    /\ HandlerGot(get(cfg.tag, mem, text))
    /\ UNCHANGED <<mem, cfg, pc>>

\* handler.step(text, 1) that returned r, beside what get() reports there
HandlerStepped(r, g) ==
    /\ text' = [text EXCEPT !.offset = r.offset]
    /\ last' = [op |-> "step", from |-> text.offset, get_bytes |-> g.bytes,
                decodes |-> GetFlags(cfg.tag), skips |-> StepFlags(cfg.tag)]

\* handler.step(text, 1) inside the text
HandlerStep ==
    /\ pc = "boundary"
    /\ text.offset < text.length
    /\ HandlerStepped(step(cfg.tag, mem, text, 1), get(cfg.tag, mem, text))
    /\ pc' = "stepped"
    /\ UNCHANGED <<mem, cfg>>

NextHandler == HandlerRead \/ HandlerStep

SpecHandler == InitHandler /\ [][NextHandler]_vars

\* C24: every UTF-8 family handler passes to stepUTF8 and backUTF8 the
\* use_cesu, use_java, strict and coalesce values its get() passes to
\* decodeUTF8, so step(text, 1) from a decoder boundary moves the cursor by
\* the byte count get() reports there.
HandlerSkipsAsItDecodes ==
    last.op = "step" =>
        /\ last.skips = last.decodes
        /\ text.offset = last.from + last.get_bytes

\* ------------------------------------------------------------------------
\* Specification SpecWellFormed: non-strict decodeUTF8 of one well-formed
\* sequence of 2..6 bytes
\* ------------------------------------------------------------------------

\* the payload values 0..MaxPayloadDense are all decoded
MaxPayloadDense == 40

\* the number of payload bits of a sequence of n bytes
PayloadBits(n) ==
    CASE n = 1 -> 7 [] n = 2 -> 11 [] n = 3 -> 16 [] n = 4 -> 21 [] n = 5 -> 26 [] OTHER -> 31

\* payload values around every width's limit
PayloadEdges ==
    { \h7F, \h80, \h7FF, \h800, \hD800, \hDC00, \hFFFF, \h10000, \h1FFFF, \h20000, \h1FFFFF,
      \h200000, \h3FFFFF, \h400000, \h3FFFFFF, \h4000000, \h7FFFFFFF }

\* v fits in k payload bits
FitsBits(v, k) == IF k >= 31 THEN v >= 0 ELSE v >= 0 /\ v < 2 ^ k

InitWellFormed ==
    /\ \E n \in 2..6, v \in (0..MaxPayloadDense) \cup PayloadEdges, s \in Behind :
         /\ FitsBits(v, PayloadBits(n))
         /\ mem = BytesUTF8n(v, n) \o <<s>>
         /\ text = [buffer |-> "buf", length |-> n, offset |-> 0]
         /\ cfg = [n |-> n, value |-> v]
    /\ pc = "start"
    /\ last = [op |-> "none"]

\* decodeUTF8(text, unicode, bytes, use_cesu, use_java, false, coalesce)
\* returned r
WellFormedDecoded(r, use_cesu, use_java) ==
    /\ last' = [op |-> "decodeUTF8", errors |-> r.errors, unicode |-> r.unicode,
                bytes |-> r.bytes, use_cesu |-> use_cesu, use_java |-> use_java]
    /\ pc' = "decoded"

DecodeWellFormed ==
    /\ pc = "start"
    /\ \E use_cesu, use_java, coalesce \in BOOLEAN :
         WellFormedDecoded(decodeUTF8(mem, text, use_cesu, use_java, FALSE, coalesce),
                           use_cesu, use_java)
    /\ UNCHANGED <<mem, text, cfg>>

NextWellFormed == DecodeWellFormed

SpecWellFormed == InitWellFormed /\ [][NextWellFormed]_vars

\* C25: non-strict decodeUTF8 of a well-formed sequence of n bytes, n in
\* 2..6, sets ModifiedUTF8 alone when the payload is 0 and n = 2, sets
\* OverlongUTF8 alone when the payload otherwise fits in n - 1 bytes
\* (payload < 0x80, 0x800, 0x10000, 0x200000, 0x4000000), and sets neither
\* bit when the payload needs n bytes.
OverlongOnDecode ==
    last.op = "decodeUTF8" =>
        LET modified == "ModifiedUTF8" \in last.errors
            overlong == "OverlongUTF8" \in last.errors
        IN  IF cfg.value = 0 /\ cfg.n = 2 THEN modified /\ ~overlong
            ELSE IF FitsBits(cfg.value, PayloadBits(cfg.n - 1)) THEN overlong /\ ~modified
            ELSE ~overlong /\ ~modified

\* ------------------------------------------------------------------------
\* Specification SpecWidth: encodeUTF8n of one scalar with an explicit byte
\* count, then decodeUTF8 of what it wrote
\* ------------------------------------------------------------------------

\* the scalars 0..MaxScalarDense are all encoded
MaxScalarDense == 20

InitWidth ==
    /\ cfg \in [unicode : (0..MaxScalarDense) \cup PayloadEdges]
    /\ text \in [buffer : {"buf"}, length : 0..EncodeRoom, offset : {0}]
    /\ mem = Blank
    /\ pc = "start"
    /\ last = [op |-> "none"]

\* encodeUTF8n(text, unicode, bytes, use_java) returned r
WidthEncoded(r, bytes, use_java) ==
    /\ mem' = Store(mem, text.offset, r.out)
    /\ last' = [op |-> "encodeUTF8n", width |-> bytes, use_java |-> use_java,
                errors |-> r.errors, written |-> Len(r.out)]
    /\ pc' = "encoded"

EncodeWidth ==
    /\ pc = "start"
    /\ \E bytes \in 0..MaxWidth, use_java \in BOOLEAN :
         WidthEncoded(encodeUTF8n(text, cfg.unicode, bytes, use_java), bytes, use_java)
    /\ UNCHANGED <<text, cfg>>

\* decodeUTF8(text, unicode, bytes, false, use_java, false, false) returned r
\* on the buffer the encoder wrote
WidthDecoded(r) ==
    /\ last' = [op |-> "decodeUTF8", width |-> last.width, use_java |-> last.use_java,
                errors |-> last.errors, written |-> last.written,
                unicode |-> r.unicode, bytes |-> r.bytes]
    /\ pc' = "decoded"

DecodeWidth ==
    /\ pc = "encoded"
    /\ last.written > 0
    /\ WidthDecoded(decodeUTF8(mem, text, FALSE, last.use_java, FALSE, FALSE))
    /\ UNCHANGED <<mem, text, cfg>>

NextWidth == EncodeWidth \/ DecodeWidth

SpecWidth == InitWidth /\ [][NextWidth]_vars

\* C26: encodeUTF8n of a scalar s in 0..0x7FFFFFFF with width w in 1..6 fails
\* with NotEncodable and NotEnoughBits exactly when s does not fit in 7, 11,
\* 16, 21, 26, 31 bits; otherwise, given room, it writes w bytes that decode
\* back to s, with OverlongUTF8 and IrregularForm exactly when s also fits
\* width w - 1 (ModifiedUTF8 instead for s = 0 and w = 2); a width outside
\* 1..6 fails with BadSizeUTF8.
ExplicitWidthEncode ==
    last.op \in {"encodeUTF8n", "decodeUTF8"} =>
        LET w == last.width
            s == cfg.unicode
            e == last.errors
            fits == FitsBits(s, PayloadBits(w))
            room == text.length - text.offset >= w
        IN  IF w < 1 \/ w > 6
            THEN {"Failed", "NotEncodable", "BadSizeUTF8"} \subseteq e
            ELSE /\ ({"Failed", "NotEncodable", "NotEnoughBits"} \subseteq e) <=> ~fits
                 /\ "NotEnoughBits" \in e <=> ~fits
                 /\ (fits /\ room) => last.written = w
                 /\ (fits /\ room /\ last.op = "decodeUTF8") =>
                        last.unicode = s /\ last.bytes = w
                 /\ fits =>
                        IF s = 0 /\ w = 2
                        THEN "ModifiedUTF8" \in e /\ "OverlongUTF8" \notin e
                        ELSE /\ "ModifiedUTF8" \notin e
                             /\ "OverlongUTF8" \in e <=>
                                    (w > 1 /\ FitsBits(s, PayloadBits(w - 1)))
                             /\ "OverlongUTF8" \in e => "IrregularForm" \in e

\* ------------------------------------------------------------------------
\* Specification SpecDiag: one call of an encoder, a decoder, a BOM or NULL
\* encoder, get_errors or a handler helper, and the diagnostic it returns
\* ------------------------------------------------------------------------

RECURSIVE ValidateLoop(_, _, _, _)
\* one turn of the while loop of validate after read(scan, unicode) returned r
ValidateTurn(tag, m, scan, errors, r) ==
    IF error(errors \cup r.errors) THEN errors \cup r.errors
    ELSE ValidateLoop(tag, m, Advance(scan, r.bytes), errors \cup r.errors)

\* while (scan.offset < scan.length) { errors |= read(scan, unicode); ... }
ValidateLoop(tag, m, scan, errors) ==
    IF scan.offset < scan.length
    THEN ValidateTurn(tag, m, scan, errors, get(tag, m, scan))
    ELSE errors

\* IUTFTK::validate
validate(tag, m, t) ==
    IF no_error(get_errors(t)) THEN ValidateLoop(tag, m, t, get_errors(t))
    ELSE get_errors(t)

\* the buffers are made of at most MaxDiag pieces
MaxDiag == 2

DiagPieces ==
    { <<\h0A>>, <<\h41>>, <<\hFF>>, <<\hC3>>, <<\hED, \hA0, \h80>>, <<\hED, \hB0, \h80>>,
      <<\hD8, 0>>, <<\hDC, 0>> }

DiagScalars == { -1, 0, \h41, \h100, \hD800, \hFFFE, \h10000, \h110000, \h200000 }

InitDiag ==
    /\ \E b \in Joined(DiagPieces, MaxDiag) :
         /\ mem = b
         /\ \/ text \in [buffer : {"buf"}, length : {Len(b)}, offset : 0..(Len(b) + 1)]
            \/ text = [buffer |-> "nullptr", length |-> Len(b), offset |-> 0]
    /\ cfg = [room |-> Len(mem)]
    /\ pc = "start"
    /\ last = [op |-> "none", errors |-> {}]

\* a call that returned the diagnostic errors, stored out at the cursor and
\* moved the cursor on by bytes
Diagnosed(op, errors, out, bytes) ==
    /\ mem' = Store(mem, text.offset, out)
    /\ text' = Advance(text, bytes)
    /\ last' = [op |-> op, errors |-> errors]
    /\ pc' = "returned"
    /\ UNCHANGED cfg

\* a raw encoder returned r
DiagEncoded(op, r) == Diagnosed(op, r.errors, r.out, 0)

\* a raw decoder returned r
DiagDecoded(op, r) == Diagnosed(op, r.errors, <<>>, 0)

DiagGetErrors ==
    /\ pc = "start"
    /\ \/ Diagnosed("get_errors", get_errors(text), <<>>, 0)
       \/ \E alignment_mask \in {1, 3} :
            Diagnosed("get_errors", get_errors_aligned(text, alignment_mask), <<>>, 0)

DiagEncode ==
    /\ pc = "start"
    /\ \E unicode \in DiagScalars, a \in BOOLEAN :
         \/ DiagEncoded("encodeBYTE", encodeBYTE(text, unicode, a))
         \/ DiagEncoded("encodeCP1252", encodeCP1252(text, unicode, a))
         \/ \E bytes \in 0..MaxWidth :
              DiagEncoded("encodeUTF8n", encodeUTF8n(text, unicode, bytes, a))
         \/ \E b \in BOOLEAN :
              \/ DiagEncoded("encodeUTF8", encodeUTF8(text, unicode, a, b))
              \/ DiagEncoded("encodeUTF16", encodeUTF16(text, unicode, a, b))
              \/ \E c \in BOOLEAN :
                   DiagEncoded("encodeUTF32", encodeUTF32(text, unicode, a, b, c))

DiagMark ==
    /\ pc = "start"
    /\ \/ DiagEncoded("encodeUTF8_BOM", encodeUTF8_BOM(text))
       \/ DiagEncoded("encodeUTF8_NULL", encodeUTF8_NULL(text))
       \/ DiagEncoded("encodeUTF16_NULL", encodeUTF16_NULL(text))
       \/ DiagEncoded("encodeUTF32_NULL", encodeUTF32_NULL(text))
       \/ \E le \in BOOLEAN :
            \/ DiagEncoded("encodeUTF16_BOM", encodeUTF16_BOM(text, le))
            \/ DiagEncoded("encodeUTF32_BOM", encodeUTF32_BOM(text, le))

DiagDecode ==
    /\ pc = "start"
    /\ \E a, b \in BOOLEAN :
         \/ DiagDecoded("decodeBYTE", decodeBYTE(mem, text, a, b))
         \/ DiagDecoded("decodeCP1252", decodeCP1252(mem, text, a, b))
         \/ DiagDecoded("decodeUTF16", decodeUTF16(mem, text, a, b))
         \/ \E c \in BOOLEAN :
              \/ DiagDecoded("decodeUTF32", decodeUTF32(mem, text, a, b, c))
              \/ \E d \in BOOLEAN :
                   DiagDecoded("decodeUTF8", decodeUTF8(mem, text, a, b, c, d))

\* handler.read(text, unicode) after get() returned r
DiagRead ==
    /\ pc = "start"
    /\ \E tag \in Tags : \E r \in {get(tag, mem, text)} :
         Diagnosed("read", r.errors, <<>>, r.bytes)

\* handler.write(text, unicode) after set() returned r
DiagWrite ==
    /\ pc = "start"
    /\ \E tag \in Tags, unicode \in DiagScalars : \E r \in {set(tag, text, unicode)} :
         Diagnosed("write", r.errors, r.out, r.bytes)

DiagValidate ==
    /\ pc = "start"
    /\ \E tag \in Tags : Diagnosed("validate", validate(tag, mem, text), <<>>, 0)

DiagGetNLF ==
    /\ pc = "start"
    /\ \E tag \in Tags : Diagnosed("getNLF", getNLF(tag, mem, text).errors, <<>>, 0)

DiagGetLine ==
    /\ pc = "start"
    /\ \E tag \in Tags : Diagnosed("getLine", getLine(tag, mem, text).errors, <<>>, 0)

NextDiag ==
    \/ DiagGetErrors \/ DiagEncode \/ DiagMark \/ DiagDecode \/ DiagRead \/ DiagWrite
    \/ DiagValidate \/ DiagGetNLF \/ DiagGetLine

SpecDiag == InitDiag /\ [][NextDiag]_vars

\* C27: the diagnostic every encoder, decoder, BOM or NULL encoder,
\* get_errors and handler helper returns has the Failed bit set if and only
\* if at least one other hard-error bit is set.
FailedIsSummary ==
    last.op # "none" =>
        ("Failed" \in last.errors <=> (last.errors \cap (ErrorsMask \ {"Failed"})) # {})

FailedIsSummaryWitness ==
    /\ last.op = "getLine"
    /\ text.buffer = "buf"
    /\ "Failed" \in last.errors
    /\ "NotDecodable" \in last.errors

\* ------------------------------------------------------------------------
\* Specification SpecPair: decodeUTF8 at a sequence that holds a high
\* surrogate, with every kind of sequence behind it
\* ------------------------------------------------------------------------

\* 0..MaxBefore bytes of the buffer lie before the cursor
MaxBefore == 1

\* sequences that hold a high surrogate: U+D800, U+DBFF, U+D83D, and U+D800
\* in four bytes
HighSeqs ==
    { <<\hED, \hA0, \h80>>, <<\hED, \hAF, \hBF>>, <<\hED, \hA0, \hBD>>,
      <<\hF0, \h8D, \hA0, \h80>> }

\* what follows: low surrogates (U+DC00, U+DFFF, U+DE00, U+DC00 in four
\* bytes), other scalars, sequences cut short, bytes that start no sequence
FollowSeqs ==
    { <<>>, <<\hED, \hB0, \h80>>, <<\hED, \hBF, \hBF>>, <<\hED, \hB8, \h80>>,
      <<\hF0, \h8D, \hB0, \h80>>, <<\h41>>, <<0>>, <<\hED, \hA0, \h80>>, <<\hE2, \h82, \hAC>>,
      <<\hED>>, <<\hED, \hB0>>, <<\hF0, \h8D, \hB0>>, <<\hED, \h41>>, <<\hED, \hB0, \h41>>,
      <<\hF0, \h41, \hB0>>, <<\h80>>, <<\hFF>>, <<\hED, \hB0, \hFF>> }

InitPair ==
    /\ \E before \in 0..MaxBefore, h \in HighSeqs, l \in FollowSeqs, s \in Behind :
         /\ mem = [i \in 1..before |-> \h41] \o h \o l \o <<s>>
         /\ text = [buffer |-> "buf", length |-> before + Len(h) + Len(l), offset |-> before]
         /\ cfg = [first |-> Len(h)]
    /\ pc = "start"
    /\ last = [op |-> "none"]

\* decodeUTF8(text, unicode, bytes, use_cesu, use_java, strict, coalesce)
\* returned r
PairDecoded(r, use_cesu, strict) ==
    /\ last' = [op |-> "decodeUTF8", errors |-> r.errors, unicode |-> r.unicode,
                bytes |-> r.bytes, use_cesu |-> use_cesu, strict |-> strict]
    /\ pc' = "decoded"

DecodePair ==
    /\ pc = "start"
    /\ \E use_cesu, use_java, strict, coalesce \in BOOLEAN :
         PairDecoded(decodeUTF8(mem, text, use_cesu, use_java, strict, coalesce),
                     use_cesu, strict)
    /\ UNCHANGED <<mem, text, cfg>>

NextPair == DecodePair

SpecPair == InitPair /\ [][NextPair]_vars

\* the join of CESU decoding, as stated, for the high surrogate first and
\* the sequence follow behind it
PairAsStated(first, follow) ==
    IF no_error(follow.errors) /\ "ReadExhausted" \notin follow.errors
       /\ follow.unicode >= \hDC00 /\ follow.unicode <= \hDFFF
    THEN /\ last.unicode = \h10000 + ((first.unicode % 1024) * 1024) + (follow.unicode % 1024)
         /\ last.bytes = first.bytes + follow.bytes
         /\ {"SurrogatePair", "Supplementary"} \subseteq last.errors
         /\ "HighSurrogate" \notin last.errors
    ELSE /\ last.unicode = first.unicode
         /\ last.bytes = first.bytes
         /\ "HighSurrogate" \in last.errors
         /\ "SurrogatePair" \notin last.errors
         /\ "TruncatedPair" \in last.errors <=>
                anyOf(follow.errors, {"ReadTruncated", "ReadExhausted"})

\* the high surrogate at the cursor and the sequence behind it
PairAtCursor(holds) ==
    LET first == fetchUTF8(mem, text.offset, text.length - text.offset, FALSE)
    IN  holds => PairAsStated(first,
                     fetchUTF8(mem, text.offset + first.bytes,
                               (text.length - text.offset) - first.bytes, FALSE))

\* C28 as stated: with use_cesu, a high surrogate h followed by a sequence
\* that decodes without hard error to a low surrogate l is returned as
\* 0x10000 + ((h & 0x3FF) << 10) + (l & 0x3FF) with the bytes of both,
\* SurrogatePair and Supplementary set and HighSurrogate clear; a follow-up
\* that is truncated or missing gives h alone with TruncatedPair, any other
\* follow-up gives h alone as an unpaired high surrogate.
CesuJoin == PairAtCursor(last.op = "decodeUTF8" /\ last.use_cesu)

\* C28 amended: the same, for strict = false and for the strict results
\* that carry no IrregularForm; a strict decode rejects every other result.
CesuJoinUnlessRejected ==
    PairAtCursor(/\ last.op = "decodeUTF8"
                 /\ last.use_cesu
                 /\ (~last.strict \/ "IrregularForm" \notin last.errors))

CesuJoinWitness ==
    /\ last.op = "decodeUTF8"
    /\ last.use_cesu
    /\ last.strict
    /\ text.offset = 1
    /\ last.unicode = \h1F600
    /\ last.bytes = 6
    /\ last.errors = {"SurrogatePair", "Supplementary"}

\* C29: a decodeUTF8 result that passed the byte-level fetch carries
\* IrregularForm exactly when OverlongUTF8, ExtendedUTF8, ExtendedUCS4,
\* HighSurrogate or LowSurrogate is set, or ModifiedUTF8 is set while
\* use_java is false; with strict = true such a result also has Failed and
\* NotDecodable, the lead byte as its scalar and bytes = 1; with use_java =
\* true the bytes C0 80 decode to scalar 0 in 2 bytes with ModifiedUTF8 as
\* the only bit.
IrregularFolding ==
    (/\ pc = "decoded"
     /\ last.op = "decode"
     /\ no_error(fetchUTF8(mem, text.offset, text.length - text.offset,
                           cfg.flags.coalesce /\ ~cfg.flags.strict).errors))
    => LET irregular ==
               \/ last.errors \cap {"OverlongUTF8", "ExtendedUTF8", "ExtendedUCS4",
                                    "HighSurrogate", "LowSurrogate"} # {}
               \/ "ModifiedUTF8" \in last.errors /\ ~cfg.flags.use_java
       IN  /\ "IrregularForm" \in last.errors <=> irregular
           /\ (irregular /\ cfg.flags.strict) =>
                  /\ {"Failed", "NotDecodable"} \subseteq last.errors
                  /\ last.unicode = At(mem, text.offset)
                  /\ last.bytes = 1
           /\ (irregular /\ ~cfg.flags.strict) => no_error(last.errors)
           /\ (/\ cfg.flags.use_java
               /\ text.offset + 2 <= text.length
               /\ At(mem, text.offset) = \hC0
               /\ At(mem, text.offset + 1) = \h80) =>
                  /\ last.unicode = 0
                  /\ last.bytes = 2
                  /\ last.errors = {"ModifiedUTF8"}

\* the strict Java decoder takes C0 80 as U+0000
IrregularFoldingWitness ==
    /\ pc = "decoded"
    /\ cfg.flags.use_java
    /\ cfg.flags.strict
    /\ text.offset = 1
    /\ At(mem, 1) = \hC0 /\ At(mem, 2) = \h80
    /\ last.errors = {"ModifiedUTF8"}
    /\ last.bytes = 2

\* ------------------------------------------------------------------------
\* Specification SpecBadByte: read() through decodeUTF8 at a lead byte whose
\* sequence is broken by a byte that is no continuation, then the next decode
\* ------------------------------------------------------------------------

\* the lead bytes that announce n bytes
LeadsOf(n) ==
    CASE n = 2 -> {\hC0, \hC3, \hDF} [] n = 3 -> {\hE0, \hED} [] n = 4 -> {\hF0, \hF4}
      [] n = 5 -> {\hF8, \hFB} [] OTHER -> {\hFC, \hFD}

\* bytes that are not of the form 10xxxxxx
BrokenBy == {0, \h41, \hC3, \hFE, \hFF}

InitBadByte ==
    /\ \E n \in 2..6 : \E k \in 1..(n - 1), lead \in LeadsOf(n), bad \in BrokenBy :
         /\ cfg = [n |-> n, k |-> k, lead |-> lead, bad |-> bad]
         /\ \E before \in 0..MaxBefore, avail \in (k + 1)..(n + 1),
               cont \in {\h80, \hBF}, s \in Behind :
              /\ mem = [i \in 1..before |-> \h41] \o <<lead>> \o [i \in 1..(k - 1) |-> cont]
                       \o <<bad>> \o [i \in 1..(avail - k - 1) |-> \h80] \o <<s>>
              /\ text = [buffer |-> "buf", length |-> before + avail, offset |-> before]
    /\ pc = "start"
    /\ last = [op |-> "none"]

\* read(): decodeUTF8 returned r at the cursor, which moves on by r.bytes
BadByteDecoded(r, strict) ==
    /\ text' = Advance(text, r.bytes)
    /\ last' = [op |-> "decodeUTF8", from |-> text.offset, errors |-> r.errors,
                unicode |-> r.unicode, bytes |-> r.bytes, strict |-> strict]
    /\ pc' = "decoded"

DecodeBadByte ==
    /\ pc = "start"
    /\ \E use_cesu, use_java, strict, coalesce \in BOOLEAN :
         BadByteDecoded(decodeUTF8(mem, text, use_cesu, use_java, strict, coalesce), strict)
    /\ UNCHANGED <<mem, cfg>>

\* the decode that follows, r being what it returns
NextDecoded(r, strict) ==
    /\ text' = Advance(text, r.bytes)
    /\ last' = [op |-> "next", from |-> text.offset, errors |-> r.errors,
                unicode |-> r.unicode, bytes |-> r.bytes, strict |-> strict,
                first |-> last.from]
    /\ pc' = "done"

DecodeBehindBadByte ==
    /\ pc = "decoded"
    /\ NextDecoded(decodeUTF8(mem, text, FALSE, FALSE, last.strict, FALSE), last.strict)
    /\ UNCHANGED <<mem, cfg>>

NextBadByte == DecodeBadByte \/ DecodeBehindBadByte

SpecBadByte == InitBadByte /\ [][NextBadByte]_vars

\* C30: in non-strict decodeUTF8, when the lead byte announces n bytes, n in
\* 2..6, and the first byte that is no continuation sits within the buffer
\* at relative index k, 1 <= k < n, the result has Failed and NotDecodable,
\* DisallowedByte for 0xFE and 0xFF and UnexpectedByte otherwise,
\* ReadTruncated clear, byte index k, bytes k and the lead byte as scalar,
\* and the next decode starts at the offending byte.
BadContinuation ==
    /\ (last.op = "decodeUTF8" /\ ~last.strict) =>
           /\ {"Failed", "NotDecodable"} \subseteq last.errors
           /\ "DisallowedByte" \in last.errors <=> cfg.bad >= \hFE
           /\ "UnexpectedByte" \in last.errors <=> cfg.bad < \hFE
           /\ "ReadTruncated" \notin last.errors
           /\ get_byte_index(last.errors) = cfg.k
           /\ last.bytes = cfg.k
           /\ last.unicode = cfg.lead
           /\ text.offset = last.from + cfg.k
    /\ (last.op = "next" /\ ~last.strict) =>
           /\ last.from = last.first + cfg.k
           /\ At(mem, last.from) = cfg.bad

\* a six byte sequence cut short in the buffer and broken at its fifth
\* continuation byte by 0xFF
BadContinuationWitness ==
    /\ last.op = "next"
    /\ ~last.strict
    /\ cfg.n = 6 /\ cfg.k = 5 /\ cfg.bad = \hFF
    /\ last.first = 1
    /\ last.from = 6
    /\ text.length = 7

====
